---------------------------- MODULE Spec2Model ----------------------------
(***************************************************************************)
(* Model of the CarGurus scraper (backend/scraper/cargurus_scraper.py).    *)
(*                                                                         *)
(* Strings are sequences of one-character strings, so that find, slicing, *)
(* isdigit, strip and the regular expressions of the code are computed    *)
(* character by character.  Indices returned by Find are 0-based, as in   *)
(* Python, and -1 means "not found".  Python's None is modelled by the    *)
(* empty sequence wherever the code only tests the value for truth.       *)
(***************************************************************************)
EXTENDS Integers, Sequences, FiniteSets, TLC

VARIABLES
    op,            \* the operation under way
    pc,            \* position inside the operation
    url,           \* the url argument of scrape_car / _extract_listing_id
    urlHost,       \* the host the url was built with (bookkeeping of the input)
    listing_id,    \* value returned by _extract_listing_id
    matched,       \* number of the pattern that returned (0: none)
    json_data,     \* the detail payload handed to _extract_car_data_from_json
    tile_data,     \* the data object of a search tile
    tile_type,     \* the type tag of that tile
    car,           \* the extractor's return value: {} for None, {record} else
    request,       \* the InventorySearchRequest of search_inventory
    attempt,       \* loop index of _fetch_json_data
    fetched,       \* how _fetch_json_data ended
    detail_log,    \* the responses to the GETs of this _fetch_json_data call
    detail_sleeps, \* the time.sleep arguments of this _fetch_json_data call
    search_attempt,\* loop index of search_inventory
    search_log,    \* the responses to the search GETs of this call
    search_sleeps, \* the time.sleep arguments of the search loop
    links,         \* listing links of the search page still to be scraped
    link_sleeps,   \* number of one-second pauses made between listing links
    cars,          \* the cars collected by the search so far
    result,        \* the InventorySearchResult returned: {} before the return
    headers,       \* the headers of the session of the instance
    sent,          \* the GETs of the call under way, each with its headers
    dealer_log,    \* the responses to the GETs of this scrape_dealer_page call
    search_params, \* the parameters scrape_dealer_page has scraped
    soup           \* the parsed page handed to simple_main's search extractor

urlVars == <<url, urlHost, listing_id, matched>>
exVars == <<json_data, tile_data, tile_type, car, soup>>
fetchVars == <<attempt, fetched, detail_log, detail_sleeps>>
sessionVars == <<headers, sent>>
dealerVars == <<dealer_log, search_params>>
searchVars == <<request, search_attempt, search_log, search_sleeps, links,
                link_sleeps, cars, result>>
vars == <<op, pc, url, urlHost, listing_id, matched,
          json_data, tile_data, tile_type, car,
          attempt, fetched, detail_log, detail_sleeps,
          request, search_attempt, search_log, search_sleeps, links,
          link_sleeps, cars, result, headers, sent, dealer_log,
          search_params, soup>>

-----------------------------------------------------------------------------
(* Python string primitives *)

None == <<>>

Digits == {"0", "1", "2", "3", "4", "5", "6", "7", "8", "9"}

SetMin(S) == CHOOSE x \in S : \A y \in S : x <= y

\* s[a:b] with 0 <= a, b <= len(s)
Slice(s, a, b) == SubSeq(s, a + 1, b)

\* sub occurs in s at 0-based index i
OccursAt(s, sub, i) ==
    /\ i >= 0
    /\ i + Len(sub) <= Len(s)
    /\ SubSeq(s, i + 1, i + Len(sub)) = sub

\* s.find(sub, start)
Find(s, sub, start) ==
    LET hits == {i \in start..(Len(s) - Len(sub)) : OccursAt(s, sub, i)}
    IN  IF hits = {} THEN -1 ELSE SetMin(hits)

\* sub in s
Contains(s, sub) == Find(s, sub, 0) # -1

\* s.isdigit(): non-empty and made of digits only
IsDigitStr(s) == Len(s) > 0 /\ \A i \in 1..Len(s) : s[i] \in Digits

\* the maximal run of digits of s that starts at 0-based index i (regex \d+)
DigitRunAt(s, i) ==
    LET stops == {j \in i..Len(s) : j = Len(s) \/ s[j + 1] \notin Digits}
    IN  Slice(s, i, SetMin(stops))

DigitVal(c) ==
    CASE c = "0" -> 0 [] c = "1" -> 1 [] c = "2" -> 2 [] c = "3" -> 3
      [] c = "4" -> 4 [] c = "5" -> 5 [] c = "6" -> 6 [] c = "7" -> 7
      [] c = "8" -> 8 [] c = "9" -> 9

RECURSIVE ToInt(_)
\* int(s) for a string of digits
ToInt(s) ==
    IF Len(s) = 0 THEN 0
    ELSE 10 * ToInt(SubSeq(s, 1, Len(s) - 1)) + DigitVal(s[Len(s)])

\* re.search(prefix + r'(\d+)', s).group(1) for the alternatives in prefixes:
\* the leftmost place where one of them is followed by a digit
SearchDigitsAfter(s, prefixes) ==
    LET hits == {i \in 0..Len(s) : \E p \in prefixes :
                    /\ OccursAt(s, p, i)
                    /\ i + Len(p) < Len(s)
                    /\ s[i + Len(p) + 1] \in Digits}
    IN  IF hits = {} THEN None
        ELSE LET i == SetMin(hits)
                 p == CHOOSE q \in prefixes : OccursAt(s, q, i)
             IN  DigitRunAt(s, i + Len(p))

\* s.startswith(prefix)
StartsWith(s, prefix) == OccursAt(s, prefix, 0)

UpperLetters == <<"A","B","C","D","E","F","G","H","I","J","K","L","M","N","O","P","Q","R","S","T","U","V","W","X","Y","Z">>
LowerLetters == <<"a","b","c","d","e","f","g","h","i","j","k","l","m","n","o","p","q","r","s","t","u","v","w","x","y","z">>
Letters == {UpperLetters[i] : i \in 1..26} \cup {LowerLetters[i] : i \in 1..26}

\* s.lower()
Lower(s) ==
    [i \in 1..Len(s) |->
        IF \E k \in 1..26 : UpperLetters[k] = s[i]
        THEN LowerLetters[CHOOSE k \in 1..26 : UpperLetters[k] = s[i]]
        ELSE s[i]]

\* the places of s from 0-based index start on where a character of stops
\* stands, and the end of s
StopsFrom(s, start, stops) ==
    {j \in start..Len(s) : j = Len(s) \/ s[j + 1] \in stops}

\* urlparse(u).netloc: what stands between "scheme://" and the next / ? or #
Netloc(u) ==
    LET c == Find(u, <<":">>, 0)
        hasScheme == /\ c > 0
                     /\ u[1] \in Letters
                     /\ \A i \in 1..c : u[i] \in Letters \cup Digits \cup {"+", "-", "."}
        rest == IF hasScheme THEN c + 1 ELSE 0
    IN  IF OccursAt(u, <<"/", "/">>, rest)
        THEN Slice(u, rest + 2, SetMin(StopsFrom(u, rest + 2, {"/", "?", "#"})))
        ELSE <<>>

-----------------------------------------------------------------------------
(* The literals of _extract_listing_id *)

K_listingId == <<"l","i","s","t","i","n","g","I","d","=">>
K_slashListingEq == <<"/","l","i","s","t","i","n","g","=">>
K_hashListingEq == <<"#","l","i","s","t","i","n","g","=">>
K_l == <<"/","l","-">>
K_listing == <<"/","l","i","s","t","i","n","g","/">>
K_inventorylisting ==
    <<"/","i","n","v","e","n","t","o","r","y","l","i","s","t","i","n","g","/">>
K_qId == <<"i","d","=">>
K_qListing == <<"l","i","s","t","i","n","g","=">>
K_qInventoryId == <<"i","n","v","e","n","t","o","r","y","I","d","=">>
K_zip == <<"z","i","p","=">>

\* [?&] in front of a query parameter name
QueryAlternatives(name) == {<<"?">> \o name, <<"&">> \o name}

-----------------------------------------------------------------------------
(* The hosts _is_valid_cargurus_url accepts, with the scheme in front *)

H_www == <<"h","t","t","p","s",":","/","/","w","w","w",".","c","a","r","g","u","r","u","s",".","c","o","m">>
H_bare == <<"h","t","t","p","s",":","/","/","c","a","r","g","u","r","u","s",".","c","o","m">>

\* a host that is not CarGurus but carries its name
H_evil == <<"h","t","t","p","s",":","/","/","c","a","r","g","u","r","u","s",".","c","o","m",".","i","o">>

N_www == <<"w","w","w",".","c","a","r","g","u","r","u","s",".","c","o","m">>
N_bare == <<"c","a","r","g","u","r","u","s",".","c","o","m">>

\* netloc not in ('www.cargurus.com', 'cargurus.com') replaced by a
\* substring test
IsCarGurusDomain_Substring(netloc) == Contains(netloc, N_bare)

\* parsed.netloc in ('www.cargurus.com', 'cargurus.com')
IsCarGurusDomain(netloc) == netloc \in {N_www, N_bare}

car_indicators ==
    {<<"/","C","a","r","s","/">>, <<"/","i","n","v","e","n","t","o","r","y","l","i","s","t","i","n","g","/">>, <<"/","l","i","s","t","i","n","g">>, <<"c","a","r","g","u","r","u","s",".","c","o","m">>}

_is_valid_cargurus_url(u) ==
    /\ IsCarGurusDomain(Netloc(u))
    /\ \E indicator \in car_indicators : Contains(Lower(u), Lower(indicator))

-----------------------------------------------------------------------------
(* _is_likely_not_listing_id *)

YearLo == 1900
YearHi == 2030
MinFallbackDigits == 6

\* the test of the ten digits left out
_is_likely_not_listing_id_NoPhone(candidate, u) ==
    \/ Len(candidate) = 4 /\ YearLo <= ToInt(candidate) /\ ToInt(candidate) <= YearHi
    \/ Len(candidate) = 5 /\ Find(u, K_zip \o candidate, 0) # -1

_is_likely_not_listing_id(candidate, u) ==
    \/ Len(candidate) = 4 /\ YearLo <= ToInt(candidate) /\ ToInt(candidate) <= YearHi
    \/ Len(candidate) = 5 /\ Find(u, K_zip \o candidate, 0) # -1
    \/ Len(candidate) = 10 /\ candidate[1] \in (Digits \ {"0"})

-----------------------------------------------------------------------------
(* The six patterns of _extract_listing_id, each returning digits or None *)

\* Pattern 1: the text between the first "listingId=" and the next "&"
\* (else the next "#", else the end), when it is all digits
Pattern1(u) ==
    IF ~Contains(u, K_listingId) THEN None
    ELSE LET start == Find(u, K_listingId, 0) + Len(K_listingId)
             amp == Find(u, <<"&">>, start)
             hash == Find(u, <<"#">>, start)
             end == IF amp # -1 THEN amp ELSE IF hash # -1 THEN hash ELSE Len(u)
             id == Slice(u, start, end)
         IN  IF IsDigitStr(id) THEN id ELSE None

\* Patterns 2 and 3: the text between the first occurrence of the key and the
\* next "/" (else the end), when it is all digits
AfterKeyToSlash(u, key) ==
    IF ~Contains(u, key) THEN None
    ELSE LET start == Find(u, key, 0) + Len(key)
             sl == Find(u, <<"/">>, start)
             end == IF sl # -1 THEN sl ELSE Len(u)
             id == Slice(u, start, end)
         IN  IF IsDigitStr(id) THEN id ELSE None

Pattern2(u) == AfterKeyToSlash(u, K_slashListingEq)

Pattern3(u) == AfterKeyToSlash(u, K_hashListingEq)

\* the first regular expression of the list that matches decides
FirstMatch(u, alternatives) ==
    LET hit == {k \in 1..Len(alternatives) :
                    SearchDigitsAfter(u, alternatives[k]) # None}
    IN  IF hit = {} THEN None
        ELSE SearchDigitsAfter(u, alternatives[SetMin(hit)])

path_patterns == <<{K_l}, {K_listing}, {K_inventorylisting}>>

Pattern4(u) == FirstMatch(u, path_patterns)

query_patterns ==
    <<QueryAlternatives(K_qId), QueryAlternatives(K_qListing),
      QueryAlternatives(K_qInventoryId)>>

Pattern5(u) == FirstMatch(u, query_patterns)

\* re.findall(r'(\d{6,})', u): the maximal digit runs of 6 or more digits,
\* as 0-based start indices
LongDigitRuns(u) ==
    {i \in 0..(Len(u) - 1) :
        /\ u[i + 1] \in Digits
        /\ (i = 0 \/ u[i] \notin Digits)
        /\ Len(DigitRunAt(u, i)) >= MinFallbackDigits}

Pattern6(u) ==
    LET ok == {i \in LongDigitRuns(u) :
                  ~_is_likely_not_listing_id(DigitRunAt(u, i), u)}
    IN  IF ok = {} THEN None ELSE DigitRunAt(u, SetMin(ok))

\* the digit-run fallback tried before the query parameters
PatternAt_FallbackFirst(k, u) ==
    CASE k = 1 -> Pattern1(u)
      [] k = 2 -> Pattern2(u)
      [] k = 3 -> Pattern3(u)
      [] k = 4 -> Pattern4(u)
      [] k = 5 -> Pattern6(u)
      [] k = 6 -> Pattern5(u)

\* the pattern tried at step k of _extract_listing_id
PatternAt(k, u) ==
    CASE k = 1 -> Pattern1(u)
      [] k = 2 -> Pattern2(u)
      [] k = 3 -> Pattern3(u)
      [] k = 4 -> Pattern4(u)
      [] k = 5 -> Pattern5(u)
      [] k = 6 -> Pattern6(u)

NumPatterns == 6

-----------------------------------------------------------------------------
(* JSON values: a key of a dict is a set, {} when the key is absent and {v}
   when it is present with value v; dict.get(key, default) is Get *)

Absent == {}
Some(v) == {v}
Get(o, default) == IF o = {} THEN default ELSE CHOOSE v \in o : TRUE

DigitChar(d) == CHOOSE c \in Digits : DigitVal(c) = d

RECURSIVE IntToStr(_)
\* f"{n}" for an int n >= 0
IntToStr(n) ==
    IF n < 10 THEN <<DigitChar(n)>>
    ELSE IntToStr(n \div 10) \o <<DigitChar(n % 10)>>

Whitespace == {" "}

\* s.strip()
Strip(s) ==
    LET keep == {i \in 1..Len(s) : s[i] \notin Whitespace}
    IN  IF keep = {} THEN <<>>
        ELSE SubSeq(s, SetMin(keep), CHOOSE j \in keep : \A i \in keep : i <= j)

\* s.split(sep, 1)[1] when sep occurs in s
AfterFirst(s, sep) == Slice(s, Find(s, sep, 0) + Len(sep), Len(s))

S_Unknown == <<"U","n","k","n","o","w","n">>
SP == <<" ">>

-----------------------------------------------------------------------------
(* ScrapedCar (models.py): the constraints pydantic enforces at construction *)

MinYear == 1900
MaxYear == 2030

\* a model whose price has no lower limit
ScrapedCarValid_AnyPrice(fields) ==
    /\ MinYear <= fields.year
    /\ fields.year <= MaxYear

\* ScrapedCar(**fields) raises ValidationError unless this holds
ScrapedCarValid(fields) ==
    /\ MinYear <= fields.year
    /\ fields.year <= MaxYear
    /\ fields.price >= 0

\* the fields declared with Field(...): a construction that names no value
\* for one of them raises ValidationError
RequiredFields == {"make", "model", "year", "price", "originalUrl"}

\* a model whose originalUrl has a default
ScrapedCar_UrlOptional(fields) == IF ScrapedCarValid(fields) THEN {fields} ELSE {}

\* the extractors build the record inside try/except: a ValidationError
\* becomes the return value None
ScrapedCar(fields) ==
    IF RequiredFields \subseteq DOMAIN fields /\ ScrapedCarValid(fields)
    THEN {fields}
    ELSE {}

-----------------------------------------------------------------------------
(* The field extractors of a detail listing: features, stats, images.  A
   value read from the JSON that may have the wrong type carries a tag,
   list or dict, that says whether it has the type the code expects *)

RECURSIVE SplitOn(_, _)
\* s.split(sep)
SplitOn(s, sep) ==
    LET i == Find(s, sep, 0)
    IN  IF i = -1 THEN <<s>>
        ELSE <<Slice(s, 0, i)>> \o SplitOn(Slice(s, i + Len(sep), Len(s)), sep)

RECURSIVE StripNonEmpty(_)
\* [x.strip() for x in parts if x.strip()]
StripNonEmpty(parts) ==
    IF Len(parts) = 0 THEN <<>>
    ELSE (IF Len(Strip(Head(parts))) > 0 THEN <<Strip(Head(parts))>> ELSE <<>>)
         \o StripNonEmpty(Tail(parts))

\* x in xs
InList(x, xs) == \E i \in 1..Len(xs) : xs[i] = x

K_AdditionalInfo == <<"[","!","@","@","A","d","d","i","t","i","o","n","a","l"," ","I","n","f","o","@","@","!","]">>
S_NoFeatures == <<"F","e","a","t","u","r","e","s"," ","n","o","t"," ","a","v","a","i","l","a","b","l","e">>
S_Transmission == <<"T","r","a","n","s","m","i","s","s","i","o","n",":"," ">>
S_Drivetrain == <<"D","r","i","v","e","t","r","a","i","n",":"," ">>
S_Engine == <<"E","n","g","i","n","e",":"," ">>
S_Mileage == <<"M","i","l","e","a","g","e",":"," ">>
S_Placeholder ==
    <<"h","t","t","p","s",":","/","/","i","m","a","g","e","s",".","u","n","s","p","l","a","s","h",".","c","o","m","/","p","h","o","t","o","-","1","5","4","9","3","1","7","6","6","1","-","b","d","3","2","c","8","c","e","0","d","b","2","?","w","=","8","0","0","&","h","=","6","0","0","&","f","i","t","=","c","r","o","p">>

NoList == [list |-> TRUE, items |-> <<>>]

\* features.extend(options) raises for an options value that is no list
FeaturesRaise(listing) == \E o \in listing.options : ~o.list

\* the comma-separated features after the marker of the description
AdditionalFeatures(description) ==
    LET desc_parts == SplitOn(description, K_AdditionalInfo)
    IN  IF Len(description) > 0 /\ Len(desc_parts) > 1
        THEN StripNonEmpty(SplitOn(desc_parts[2], <<",">>))
        ELSE <<>>

\* features.append(f"{label}{value}") if the value is truthy
Labelled(label, o) ==
    IF Len(Get(o, <<>>)) > 0 THEN <<label \o Get(o, <<>>)>> ELSE <<>>

_extract_features_from_json(listing) ==
    LET features ==
            Get(listing.options, NoList).items
            \o AdditionalFeatures(Get(listing.description, <<>>))
            \o Labelled(S_Transmission, listing.localizedTransmission)
            \o Labelled(S_Drivetrain, listing.localizedDriveTrain)
            \o Labelled(S_Engine, listing.localizedEngineDisplayName)
            \o Labelled(S_Mileage, listing.mileageString)
    IN  IF Len(features) = 0 THEN <<S_NoFeatures>> ELSE features

\* picture.get('url') raises for a picture that is no dict, the loop over
\* pictures for a value that is no list
ImagesRaise(listing) ==
    \E p \in listing.pictures :
        ~p.list \/ \E i \in 1..Len(p.items) : ~p.items[i].dict

\* an append that does not look for the url in images
AddImage_Always(images, u) == Append(images, u)

\* if url and url not in images: images.append(url)
AddImage(images, u) ==
    IF InList(u, images) THEN images ELSE Append(images, u)

RECURSIVE CollectImages(_, _)
CollectImages(pictures, images) ==
    IF Len(pictures) = 0 THEN images
    ELSE LET u == Get(Head(pictures).url, <<>>)
         IN  CollectImages(Tail(pictures),
                           IF Len(u) > 0 THEN AddImage(images, u) ELSE images)

_extract_images_from_json(listing) ==
    LET images == CollectImages(Get(listing.pictures, NoList).items, <<>>)
    IN  IF Len(images) = 0 THEN <<S_Placeholder>> ELSE images

\* the marks of the stats rows, each standing for the characters of the source
Icon_category == <<"(clipboard)">>
Icon_options == <<"(wrench)">>
Icon_bullet == <<"(bullet)">>
Icon_check == <<"(check)">>
S_items == <<" ","i","t","e","m","s">>
S_options == <<" ","o","p","t","i","o","n","s">>
S_Options == <<" ","O","p","t","i","o","n","s">>

Row(header, value) == [header |-> header, value |-> value]

RECURSIVE ItemRows(_)
\* one row per item that is a dict with a label and a displayValue
ItemRows(items) ==
    IF Len(items) = 0 THEN <<>>
    ELSE LET item == Head(items)
             label == Get(item.label, <<>>)
             display_value == Get(item.displayValue, <<>>)
         IN  (IF item.dict /\ Len(label) > 0 /\ Len(display_value) > 0
              THEN <<Row(label, display_value)>> ELSE <<>>)
             \o ItemRows(Tail(items))

RECURSIVE OptionNames(_)
\* [opt.get('name', '') for opt in options_list
\*  if isinstance(opt, dict) and opt.get('name')]
OptionNames(opts) ==
    IF Len(opts) = 0 THEN <<>>
    ELSE (IF Head(opts).dict /\ Len(Get(Head(opts).name, <<>>)) > 0
          THEN <<Get(Head(opts).name, <<>>)>> ELSE <<>>)
         \o OptionNames(Tail(opts))

RECURSIVE OptionRows(_)
OptionRows(names) ==
    IF Len(names) = 0 THEN <<>>
    ELSE <<Row(<<" ", " ">> \o Icon_bullet \o SP \o Head(names), Icon_check)>>
         \o OptionRows(Tail(names))

\* the rows of one category that is a dict
CategoryRows(category) ==
    LET category_name == Get(category.categoryName, <<>>)
        items == Get(category.items, NoList).items
        option_names == OptionNames(Get(category.optionsList, NoList).items)
    IN  (IF Len(items) > 0 /\ Len(category_name) > 0
         THEN <<Row(Icon_category \o SP \o category_name,
                    IntToStr(Len(items)) \o S_items)>>
         ELSE <<>>)
        \o ItemRows(items)
        \o (IF Len(category_name) > 0 /\ Len(option_names) > 0
            THEN <<Row(Icon_options \o SP \o category_name \o S_Options,
                       IntToStr(Len(option_names)) \o S_options)>>
                 \o OptionRows(option_names)
            ELSE <<>>)

\* len(items) or the loop over options_list raises inside the try
CategoryRaises(category) ==
    /\ category.dict
    /\ \/ \E v \in category.items : ~v.list
       \/ /\ \E v \in category.optionsList : ~v.list
          /\ Len(Get(category.categoryName, <<>>)) > 0

RECURSIVE StatsRows(_)
StatsRows(categories) ==
    IF Len(categories) = 0 THEN <<>>
    ELSE (IF Head(categories).dict THEN CategoryRows(Head(categories)) ELSE <<>>)
         \o StatsRows(Tail(categories))

\* a section that is no list gives [], so does an exception in a category
_extract_stats_from_json(listing) ==
    LET stats_section == Get(listing.listingDetailStatsSectionDto, NoList)
    IN  IF ~stats_section.list THEN <<>>
        ELSE IF \E i \in 1..Len(stats_section.items) :
                    CategoryRaises(stats_section.items[i])
        THEN <<>>
        ELSE StatsRows(stats_section.items)

-----------------------------------------------------------------------------
(* _extract_car_data_from_json *)

EmptyDict == [year |-> {}, make |-> {}, model |-> {}, trim |-> {}]

EmptyListing ==
    [autoEntityInfo |-> {}, year |-> {}, makeName |-> {}, modelName |-> {},
     trimName |-> {}, listingTitleOnly |-> {}, price |-> {},
     description |-> {}, options |-> {}, pictures |-> {},
     listingDetailStatsSectionDto |-> {}, localizedTransmission |-> {},
     localizedDriveTrain |-> {}, localizedEngineDisplayName |-> {},
     mileageString |-> {}]

\* listing = json_data.get('listing', {})
Listing(jd) == Get(jd.listing, EmptyListing)

\* auto_entity_info = listing.get('autoEntityInfo', {})
AutoEntityInfo(listing) == Get(listing.autoEntityInfo, EmptyDict)

\* the top-level key preferred to autoEntityInfo
DetailMake_TopFirst(listing) ==
    Get(listing.makeName, Get(AutoEntityInfo(listing).make, S_Unknown))

\* a missing year defaulting to a plausible year, as the search tiles do
DetailYear_Default2024(listing) ==
    Get(AutoEntityInfo(listing).year, Get(listing.year, 2024))

DetailYear(listing) ==
    Get(AutoEntityInfo(listing).year, Get(listing.year, 0))

DetailMake(listing) ==
    Get(AutoEntityInfo(listing).make, Get(listing.makeName, S_Unknown))

DetailModel(listing) ==
    Get(AutoEntityInfo(listing).model, Get(listing.modelName, S_Unknown))

\* not trim or trim.strip() == ''
Blank(trim) == Len(trim) = 0 \/ Strip(trim) = <<>>

\* the trim derived from listingTitleOnly: what follows the model name
TitleTrim(listing) ==
    LET listing_title == Get(listing.listingTitleOnly, <<>>)
        model_name == Get(listing.modelName, <<>>)
    IN  IF /\ Len(listing_title) > 0
           /\ Len(model_name) > 0
           /\ Contains(listing_title, model_name)
        THEN Strip(AfterFirst(listing_title, model_name))
        ELSE <<>>

\* trim: autoEntityInfo.trim, else the trim of the title, else trimName
ResolveTrim(listing) ==
    LET t1 == Get(AutoEntityInfo(listing).trim, <<>>)
        t2 == IF Blank(t1) /\ Len(TitleTrim(listing)) > 0
              THEN TitleTrim(listing) ELSE t1
    IN  IF Blank(t2) THEN Get(listing.trimName, <<>>) ELSE t2

\* the title built without the final strip()
FullTitle_NoStrip(year, make, model, trim) ==
    IF Len(trim) > 0 /\ Len(Strip(trim)) > 0
    THEN IntToStr(year) \o SP \o make \o SP \o model \o SP \o trim
    ELSE IntToStr(year) \o SP \o make \o SP \o model

\* fullTitle = f"{year} {make} {model} {trim}".strip() or without the trim
FullTitle(year, make, model, trim) ==
    IF Len(trim) > 0 /\ Len(Strip(trim)) > 0
    THEN Strip(IntToStr(year) \o SP \o make \o SP \o model \o SP \o trim)
    ELSE Strip(IntToStr(year) \o SP \o make \o SP \o model)

\* if not make or not model or year == 0
Insufficient(make, model, year) ==
    Len(make) = 0 \/ Len(model) = 0 \/ year = 0

_extract_car_data_from_json(jd, u) ==
    LET listing == Listing(jd)
        year == DetailYear(listing)
        make == DetailMake(listing)
        model == DetailModel(listing)
        trim == ResolveTrim(listing)
    IN  IF FeaturesRaise(listing) \/ ImagesRaise(listing) THEN {}
        ELSE IF Insufficient(make, model, year) THEN {}
        ELSE ScrapedCar([make |-> make, model |-> model, year |-> year,
                         price |-> Get(listing.price, 0),
                         features |-> _extract_features_from_json(listing),
                         stats |-> _extract_stats_from_json(listing),
                         images |-> _extract_images_from_json(listing),
                         originalUrl |-> u,
                         fullTitle |-> FullTitle(year, make, model, trim)])

-----------------------------------------------------------------------------
(* _extract_car_from_json_tile (generic search) *)

DefaultTileYear == 2024

\* the url of originalPictureData, or the placeholder
TileImages(td) ==
    LET image_url == Get(Get(td.originalPictureData, [url |-> {}]).url, <<>>)
    IN  IF Len(image_url) > 0 THEN <<image_url>> ELSE <<S_Placeholder>>

S_Vdp == <<"h","t","t","p","s",":","/","/","w","w","w",".","c","a","r","g","u","r","u","s",".","c","o","m","/","C","a","r","s","/","i","n","v","e","n","t","o","r","y","l","i","s","t","i","n","g","/","v","d","p",".","a","c","t","i","o","n","?","l","i","s","t","i","n","g","I","d","=">>
S_SelectedEntity == <<"&","e","n","t","i","t","y","S","e","l","e","c","t","i","n","g","H","e","l","p","e","r",".","s","e","l","e","c","t","e","d","E","n","t","i","t","y","=">>
S_HashListing == <<"#","l","i","s","t","i","n","g","=">>
S_NoneDefault == <<"/","N","O","N","E","/","D","E","F","A","U","L","T">>
S_CarsPage == <<"h","t","t","p","s",":","/","/","w","w","w",".","c","a","r","g","u","r","u","s",".","c","o","m","/","C","a","r","s">>

\* the detail URL of the listing with the entity m6, the Cars page without
\* an id
JsonTileUrl(tile_listing_id) ==
    IF Len(tile_listing_id) > 0
    THEN S_Vdp \o tile_listing_id \o S_SelectedEntity \o <<"m","6">> \o S_HashListing
         \o tile_listing_id \o S_NoneDefault
    ELSE S_CarsPage

_extract_car_from_json_tile(td) ==
    LET make == Get(td.makeName, S_Unknown)
        model == Get(td.modelName, S_Unknown)
        year == Get(td.carYear, DefaultTileYear)
        listingTitle == Get(td.listingTitle, <<>>)
        title == IF Len(listingTitle) = 0
                 THEN IntToStr(year) \o SP \o make \o SP \o model
                 ELSE listingTitle
    IN  ScrapedCar([make |-> make, model |-> model, year |-> year,
                    price |-> Get(td.price, 0),
                    features |-> Get(td.options, <<>>),
                    stats |-> <<>>,
                    images |-> TileImages(td),
                    originalUrl |-> JsonTileUrl(Get(td.id, <<>>)),
                    fullTitle |-> title])

-----------------------------------------------------------------------------
(* _extract_car_from_ajax_tile_data (dealer inventory) *)

T_USED == <<"L","I","S","T","I","N","G","_","U","S","E","D","_","S","T","A","N","D","A","R","D">>
T_NEW == <<"L","I","S","T","I","N","G","_","N","E","W","_","S","T","A","N","D","A","R","D">>

S_Condition == <<"C","o","n","d","i","t","i","o","n">>
S_New == <<"N","e","w">>
S_Used == <<"U","s","e","d">>

\* stats.append({"header": header, "value": value}) if the value is truthy
StatIf(header, o) ==
    IF Len(Get(o, <<>>)) > 0 THEN <<Row(header, Get(o, <<>>))>> ELSE <<>>

\* the condition row of the tile type, then a row per spec found
AjaxStats(td, tt) ==
    (IF tt = T_NEW THEN <<Row(S_Condition, S_New)>>
     ELSE IF tt = T_USED THEN <<Row(S_Condition, S_Used)>>
     ELSE <<>>)
    \o StatIf(<<"M","i","l","e","a","g","e">>, td.mileageString)
    \o StatIf(<<"T","r","a","n","s","m","i","s","s","i","o","n">>, td.localizedTransmission)
    \o StatIf(<<"D","r","i","v","e","t","r","a","i","n">>, td.localizedDriveTrain)
    \o StatIf(<<"F","u","e","l"," ","T","y","p","e">>, td.localizedFuelType)
    \o StatIf(<<"E","n","g","i","n","e">>, td.localizedEngineDisplayName)

\* the url of originalPictureData, without a placeholder
AjaxImages(td) ==
    LET image_url == Get(Get(td.originalPictureData, [url |-> {}]).url, <<>>)
    IN  IF Len(image_url) > 0 THEN <<image_url>> ELSE <<>>

\* the detail URL of the listing, with the dealer as selected entity when
\* one is given; "" without an id
AjaxTileUrl(tile_listing_id, dealer_entity_id) ==
    IF Len(tile_listing_id) > 0 /\ Len(dealer_entity_id) > 0
    THEN S_Vdp \o tile_listing_id \o S_SelectedEntity \o <<"s","p">> \o dealer_entity_id
         \o S_HashListing \o tile_listing_id \o S_NoneDefault
    ELSE IF Len(tile_listing_id) > 0
    THEN S_Vdp \o tile_listing_id \o S_HashListing \o tile_listing_id \o S_NoneDefault
    ELSE <<>>

_extract_car_from_ajax_tile_data(td, dealer_entity_id, tt) ==
    LET make == Get(td.makeName, <<>>)
        model == Get(td.modelName, <<>>)
        year == Get(td.carYear, 0)
        trim == Get(td.trimName, <<>>)
    IN  IF Insufficient(make, model, year) THEN {}
        ELSE ScrapedCar([make |-> make, model |-> model, year |-> year,
                         price |-> Get(td.price, 0),
                         features |-> Get(td.options, <<>>),
                         stats |-> AjaxStats(td, tt),
                         images |-> AjaxImages(td),
                         originalUrl |-> AjaxTileUrl(Get(td.id, <<>>),
                                                     dealer_entity_id),
                         fullTitle |-> FullTitle(year, make, model, trim)])

-----------------------------------------------------------------------------
(* _extract_car_from_listing_json and _extract_cars_from_json_data: the
   listings of the JSON embedded in a search page *)

\* [x] for a record x, [] for None
AsList(c) == IF c = {} THEN <<>> ELSE <<CHOOSE x \in c : TRUE>>

_extract_car_from_listing_json(listing) ==
    LET make == Get(listing.makeName, Get(listing.make, S_Unknown))
        model == Get(listing.modelName, Get(listing.model, S_Unknown))
        year == Get(listing.year, 0)
    IN  ScrapedCar([make |-> make, model |-> model, year |-> year,
                    price |-> Get(listing.price, 0),
                    features |-> Get(listing.features, Get(listing.options, <<>>)),
                    stats |-> Get(listing.stats, <<>>),
                    images |-> Get(listing.images, <<>>),
                    originalUrl |-> Get(listing.url, <<>>),
                    fullTitle |-> Strip(IntToStr(year) \o SP \o make \o SP \o model)])

\* the value found under the first of possible_paths that exists in the
\* embedded JSON; {} when none exists
ListingsOf(jd) ==
    IF jd.searchResults # {} /\ Get(jd.searchResults, <<>>).listings # {}
    THEN Get(jd.searchResults, <<>>).listings
    ELSE IF jd.listings # {} THEN jd.listings
    ELSE IF jd.cars # {} THEN jd.cars
    ELSE IF jd.inventory # {} /\ Get(jd.inventory, <<>>).listings # {}
    THEN Get(jd.inventory, <<>>).listings
    ELSE IF jd.data # {} /\ Get(jd.data, <<>>).listings # {}
    THEN Get(jd.data, <<>>).listings
    ELSE {}

RECURSIVE CarsOfListings(_)
CarsOfListings(ls) ==
    IF Len(ls) = 0 THEN <<>>
    ELSE AsList(_extract_car_from_listing_json(Head(ls))) \o CarsOfListings(Tail(ls))

_extract_cars_from_json_data(jd) == CarsOfListings(Get(ListingsOf(jd), <<>>))

-----------------------------------------------------------------------------
(* Input payloads *)

V_H == <<"H">>
V_T == <<"T">>
V_C == <<"C">>
V_L == <<"L">>
V_TCX == <<"T"," ","C"," ","X">>
V_TC == <<"T"," ","C">>

AutoEntityInfos ==
    [year : {{}, {0}, {2020}},
     make : {{}, {<<>>}, {V_H}},
     model : {{}, {V_C}},
     trim : {{}, {SP}, {V_L}}]

Listings ==
    [autoEntityInfo : {{}} \cup {{a} : a \in AutoEntityInfos},
     year : {{}, {0}, {2021}},
     makeName : {{}, {V_T}},
     modelName : {{}, {<<>>}, {V_C}},
     trimName : {{}, {SP \o V_L}, {V_L \o SP}},
     listingTitleOnly : {{}, {V_TCX}, {V_TC}},
     price : {{25000}},
     description : {{}},
     options : {{}},
     pictures : {{}},
     listingDetailStatsSectionDto : {{}},
     localizedTransmission : {{}},
     localizedDriveTrain : {{}},
     localizedEngineDisplayName : {{}},
     mileageString : {{}}]

\* a listing whose make, model, year and price are valid
L_valid ==
    [EmptyListing EXCEPT
        !.autoEntityInfo = {[EmptyDict EXCEPT !.year = {2020}, !.make = {V_H},
                                              !.model = {V_C}]},
        !.price = {25000}]

MaxPictures == 3
MaxCategories == 2

JList(xs) == [list |-> TRUE, items |-> xs]
\* a value that is no list where a list is expected (a number)
NotAList == [list |-> FALSE, items |-> <<>>]

U_a == <<"h","t","t","p",":","/","/","i","/","a">>
U_b == <<"h","t","t","p",":","/","/","i","/","b">>
Pic(u) == [dict |-> TRUE, url |-> u]
\* a picture that is a string
Pic_str == [dict |-> FALSE, url |-> {}]
DictPictures == {Pic({U_a}), Pic({U_b}), Pic({})}
PictureLists == UNION {[1..n -> DictPictures] : n \in 0..MaxPictures}

PictureListings ==
    {[L_valid EXCEPT !.pictures = p] :
        p \in {{}, {NotAList}, {JList(<<Pic({U_a}), Pic_str>>)}}
              \cup {{JList(ps)} : ps \in PictureLists}}

F_1 == <<"N","a","v">>
F_2 == <<"R","o","o","f">>
D_plain == <<"N","i","c","e"," ","c","a","r">>
D_info == D_plain \o K_AdditionalInfo \o <<" ","N","a","v",","," ","R","o","o","f"," ",","," ",",">>

FeatureListings ==
    {[L_valid EXCEPT !.options = o, !.description = d,
                     !.localizedTransmission = t, !.mileageString = m] :
        o \in {{}, {NotAList}, {JList(<<>>)}, {JList(<<F_1>>)},
               {JList(<<F_1, F_1>>)}},
        d \in {{}, {<<>>}, {D_plain}, {D_info}},
        t \in {{}, {<<"A","u","t","o">>}},
        m \in {{}, {<<>>}}}

StatItem(l, v) == [dict |-> TRUE, label |-> l, displayValue |-> v]
StatItem_str == [dict |-> FALSE, label |-> {}, displayValue |-> {}]
StatOption(n) == [dict |-> TRUE, name |-> n]
StatOption_str == [dict |-> FALSE, name |-> {}]
Category(n, items, opts) ==
    [dict |-> TRUE, categoryName |-> n, items |-> items, optionsList |-> opts]
Category_str ==
    [dict |-> FALSE, categoryName |-> {}, items |-> {}, optionsList |-> {}]
N_cat == <<"B","o","d","y">>

StatCategories ==
    {Category_str,
     Category({N_cat},
              {JList(<<StatItem({<<"D","o","o","r","s">>}, {<<"4">>}), StatItem_str,
                       StatItem({<<"S","e","a","t","s">>}, {})>>)},
              {JList(<<StatOption({<<"S","p","o","i","l","e","r">>}), StatOption_str,
                       StatOption({})>>)}),
     Category({}, {JList(<<StatItem({<<"C","o","l","o","r">>}, {<<"R","e","d">>})>>)},
              {JList(<<StatOption({<<"R","a","c","k">>})>>)}),
     Category({N_cat}, {}, {JList(<<StatOption({<<"R","a","c","k">>})>>)}),
     Category({N_cat},
              {JList(<<StatItem({<<"D","o","o","r","s">>}, {<<"4">>}), StatItem({<<"S","e","a","t","s">>}, {})>>)},
              {JList(<<StatOption({<<"S","p","o","i","l","e","r">>})>>)}),
     Category({<<"T","r","i","m">>}, {JList(<<StatItem({<<"C","o","l","o","r">>}, {<<"R","e","d">>})>>)},
              {JList(<<StatOption({<<"R","a","c","k">>}), StatOption({<<"H","i","t","c","h">>})>>)}),
     Category({N_cat}, {NotAList}, {}),
     Category({}, {}, {NotAList})}

StatSections ==
    {{}, {NotAList}}
    \cup {{JList(cs)} : cs \in UNION {[1..n -> StatCategories] : n \in 0..MaxCategories}}

StatsListings ==
    {[L_valid EXCEPT !.listingDetailStatsSectionDto = s] : s \in StatSections}

\* years and prices at and beyond the limits of ScrapedCar
EdgeYears == {MinYear - 1, MinYear, MaxYear, MaxYear + 1}
EdgePrices == {{}, {-1}, {0}, {25000}}

RangeListings ==
    {[L_valid EXCEPT
        !.autoEntityInfo = {[EmptyDict EXCEPT !.year = {y}, !.make = {V_H},
                                              !.model = {V_C}]},
        !.price = p] : y \in EdgeYears, p \in EdgePrices}

FieldListings ==
    PictureListings \cup FeatureListings \cup StatsListings \cup RangeListings

DetailPayloads ==
    [listing : {{}} \cup {{l} : l \in Listings \cup FieldListings}]

V_id == <<"8","8","1","3","2","5">>

Tiles ==
    [id : {{}, {V_id}},
     makeName : {{}, {<<>>}, {V_H}},
     modelName : {{}, {<<>>}, {V_C}},
     carYear : {{}, {0}, {2020}},
     listingTitle : {{}, {V_TC}},
     trimName : {{}, {SP}, {V_L}, {V_L \o SP}},
     price : {{25000}},
     options : {{}, {<<>>}, {<<F_1>>}},
     originalPictureData : {{}, {[url |-> {}]}, {[url |-> {U_a}]}},
     mileageString : {{}, {<<"9"," ","m","i">>}},
     localizedTransmission : {{}},
     localizedDriveTrain : {{}},
     localizedFuelType : {{}},
     localizedEngineDisplayName : {{}}]

TileTypes == {T_USED, T_NEW}

NoPayload == [listing |-> {}]
NoTile ==
    [id |-> {}, makeName |-> {}, modelName |-> {}, carYear |-> {}, listingTitle |-> {},
     trimName |-> {}, price |-> {}, options |-> {},
     originalPictureData |-> {}, mileageString |-> {},
     localizedTransmission |-> {}, localizedDriveTrain |-> {},
     localizedFuelType |-> {}, localizedEngineDisplayName |-> {}]

RangeTiles ==
    {[NoTile EXCEPT !.makeName = {V_H}, !.modelName = {V_C}, !.carYear = {y},
                    !.price = p] : y \in EdgeYears, p \in EdgePrices}

-----------------------------------------------------------------------------
(* Input URLs: a host followed by up to MaxParts pieces *)

MaxParts == 3


D_short == <<"4","1">>
D_long == <<"8","8","1","3","2","5">>
\* ten digits, the first of them not 0
D_phone == <<"9","1","9","5","5","5","0","1","0","0">>

\* what follows the host: nothing, or a detail page with an explicit listingId
B_vdp == <<"/","C","a","r","s","/","v","d","p","?">> \o K_listingId \o D_short

UrlBases == {<<>>, B_vdp}

Pieces ==
    { <<"?">> \o K_listingId, <<"&">>, <<"/">>,
      K_hashListingEq, K_slashListingEq, K_l, K_inventorylisting,
      <<"?">> \o K_qId, <<"&">> \o K_qListing,
      D_short, D_long, D_phone }

RECURSIVE Concat(_)
Concat(ps) == IF Len(ps) = 0 THEN <<>> ELSE Head(ps) \o Concat(Tail(ps))

PieceSeqs == UNION {[1..n -> Pieces] : n \in 0..MaxParts}

-----------------------------------------------------------------------------
(* The retry loops of _fetch_json_data and search_inventory *)

max_retries == 3

RECURSIVE Pow2(_)
\* 2 ** n
Pow2(n) == IF n = 0 THEN 1 ELSE 2 * Pow2(n - 1)

\* a loop that sleeps after every failed attempt, the last one too
SleepsAfter_Always(a) == TRUE

\* if attempt < self.max_retries - 1: time.sleep(2 ** attempt)
SleepsAfter(a) == a < max_retries - 1

\* the sleeps of a loop whose attempt a has just failed
Backoff(sleeps, a) ==
    IF SleepsAfter(a) THEN Append(sleeps, Pow2(a)) ELSE sleeps

\* What session.get and the reading of its response produce:
\*   "timeout"   session.get raises requests.Timeout
\*   "error"     session.get or the reading of the response raises another
\*               exception
\*   "status"    a response whose status_code is not 200
\*   "bad_json"  status 200, response.json() raises json.JSONDecodeError
\*   "json"      status 200, response.json() returns the body
\*   "html"      status 200, a content type other than application/json
Exceptions == {"timeout", "error"}

\* except requests.Timeout / except Exception around each attempt
LoopCatches(kind) == kind \in {"timeout", "error"}

\* 'listing' in json_data, for a response of status 200 that parsed
DetailAttemptSucceeds(r) == r.kind = "json" /\ r.body.listing # {}

(* InventorySearchResult (models.py) *)

M_NoCars == "No cars found for the specified search criteria"
M_BadJson == "Failed to parse JSON response"
M_Exhausted == "Failed to search inventory after multiple attempts"
M_Internal == "Internal error"

Max(a, b) == IF a >= b THEN a ELSE b

\* the page size search_inventory assumes when it estimates the totals
PerPage == 20

\* currentPage left at its default
SearchSuccess_FirstPage(cs, page) ==
    LET total_results == Len(cs) * PerPage
    IN  [success |-> TRUE,
         cars |-> cs,
         totalResults |-> total_results,
         currentPage |-> 1,
         totalPages |-> Max(1, (total_results + (PerPage - 1)) \div PerPage),
         hasNextPage |-> FALSE,
         hasPreviousPage |-> FALSE,
         errorMessage |-> {}]

\* InventorySearchResult(success=True, cars=cars, ...) of search_inventory
SearchSuccess(cs, page) ==
    LET total_results == Len(cs) * PerPage
    IN  [success |-> TRUE,
         cars |-> cs,
         totalResults |-> total_results,
         currentPage |-> page,
         totalPages |-> Max(1, (total_results + (PerPage - 1)) \div PerPage),
         hasNextPage |-> FALSE,
         hasPreviousPage |-> FALSE,
         errorMessage |-> {}]

\* InventorySearchResult(success=False, errorMessage=...): the other fields
\* take the defaults of the model
SearchFailure(msg) ==
    [success |-> FALSE,
     cars |-> <<>>,
     totalResults |-> 0,
     currentPage |-> 1,
     totalPages |-> 1,
     hasNextPage |-> FALSE,
     hasPreviousPage |-> FALSE,
     errorMessage |-> {msg}]

\* the success result returned without the test of the cars
SearchResultOf_Unchecked(cs, page) == SearchSuccess(cs, page)

\* what search_inventory returns for the cars of a status-200 response
SearchResultOf(cs, page) ==
    IF Len(cs) > 0 THEN SearchSuccess(cs, page) ELSE SearchFailure(M_NoCars)

-----------------------------------------------------------------------------
(* _extract_cars_from_json_response: the tiles of a search response *)

T_MERCH == <<"M","E","R","C","H">>
T_PROMO == <<"P","R","O","M","O","_","L","I","S","T","I","N","G","_","X">>
K_LISTING_ == <<"L","I","S","T","I","N","G","_">>

\* bool(tile_data): the dict has a key
HasData(td) == \E k \in DOMAIN td : td[k] # {}

\* re.match(r'LISTING_.*', tile_type), or a MERCH tile with car keys
IsListingTile(tt, td) ==
    \/ StartsWith(tt, K_LISTING_)
    \/ /\ tt = T_MERCH
       /\ HasData(td)
       /\ (td.makeName # {} \/ td.modelName # {} \/ td.carYear # {})

RECURSIVE CarsOfTiles(_)
CarsOfTiles(tiles) ==
    IF Len(tiles) = 0 THEN <<>>
    ELSE LET tile == Head(tiles)
         IN  (IF IsListingTile(tile.type, tile.data) /\ HasData(tile.data)
              THEN AsList(_extract_car_from_json_tile(tile.data))
              ELSE <<>>) \o CarsOfTiles(Tail(tiles))

\* body.tiles is {} when the response has no 'tiles' key
_extract_cars_from_json_response(body) == CarsOfTiles(Get(body.tiles, <<>>))

-----------------------------------------------------------------------------
(* The headers of the requests.Session the instance keeps.  The names are
   written in lower case: the headers of a session are case-insensitive *)

HeaderNames ==
    {"user-agent", "accept", "accept-language", "referer", "cache-control",
     "dnt", "priority", "sec-fetch-mode", "x-cg-client-id", "x-requested-with"}

NoHeaders == [k \in HeaderNames |-> {}]

\* headers.update(u): the headers u names take its values
Update(h, u) ==
    [k \in HeaderNames |-> IF k \in DOMAIN u THEN {u[k]} ELSE h[k]]

S_UserAgent == "Mozilla/5.0 (Windows NT 10.0; Win64; x64) Chrome/138.0.0.0"
S_Home == "https://www.cargurus.com/"

\* __init__: self.session.headers.update(self.headers)
InitHeaders ==
    Update(NoHeaders,
           [k \in {"user-agent", "accept", "accept-language", "referer"} |->
               CASE k = "user-agent" -> S_UserAgent
                 [] k = "accept" -> "application/json, text/javascript, */*; q=0.01"
                 [] k = "accept-language" -> "en-US,en;q=0.9"
                 [] k = "referer" -> S_Home])

\* the headers search_inventory and scrape_dealer_page both write
AjaxHeaders ==
    [k \in {"accept", "accept-language", "cache-control", "sec-fetch-mode",
            "x-cg-client-id", "x-requested-with"} |->
        CASE k = "accept" -> "*/*"
          [] k = "accept-language" -> "en-US,en;q=0.9"
          [] k = "cache-control" -> "no-cache"
          [] k = "sec-fetch-mode" -> "cors"
          [] k = "x-cg-client-id" -> "site-cars"
          [] k = "x-requested-with" -> "XMLHttpRequest"]

\* search_inventory: self.session.headers.update({...})
SearchHeaders(h) ==
    Update(Update(h, AjaxHeaders),
           [k \in {"dnt", "priority"} |->
               IF k = "dnt" THEN "1" ELSE "u=1, i"])

\* scrape_dealer_page: self.session.headers.update({..., 'referer': dealer_url})
DealerHeaders(h, dealer_url) ==
    Update(Update(h, AjaxHeaders), [k \in {"referer"} |-> dealer_url])

\* a GET sent with the headers of the session
Get_(target, h) == [target |-> target, headers |-> h, params |-> {}]

-----------------------------------------------------------------------------
(* scrape_dealer_page: the parameters scraped from the landing page, the cars
   and the total of the AJAX response, the result *)

Quotes == {"\"", "'"}

\* the end of the longest run of characters of cs that starts at index i
RunEnd(s, i, cs) == SetMin({j \in i..Len(s) : j = Len(s) \/ s[j + 1] \notin cs})

\* key["\']?\s*[:=]\s*["\']([^"\']+)["\'] matched at index i: group 1, or
\* None without a match
QuotedValueAt(s, key, i) ==
    LET a == i + Len(key)
        b == IF a < Len(s) /\ s[a + 1] \in Quotes THEN a + 1 ELSE a
        c == RunEnd(s, b, Whitespace)
        d == RunEnd(s, c + 1, Whitespace)
        e == SetMin(StopsFrom(s, d + 1, Quotes))
    IN  IF /\ OccursAt(s, key, i)
           /\ c < Len(s)
           /\ s[c + 1] \in {":", "="}
           /\ d < Len(s)
           /\ s[d + 1] \in Quotes
           /\ e > d + 1
           /\ e < Len(s)
        THEN Slice(s, d + 1, e)
        ELSE None

\* a search that finds nothing
SearchQuotedValue_Never(s, key) == None

\* re.search of that pattern: group 1 of the leftmost match, else None
SearchQuotedValue(s, key) ==
    LET hits == {i \in 0..Len(s) : QuotedValueAt(s, key, i) # None}
    IN  IF hits = {} THEN None ELSE QuotedValueAt(s, key, SetMin(hits))

K_searchId == <<"s","e","a","r","c","h","I","d">>
K_pageReceipt == <<"p","a","g","e","R","e","c","e","i","p","t">>
FallbackSearchId == <<"f","9","4","6","0","1","5","c","-","5","5","3","1","-","4","f","6","d","-","9","c","5","1","-","c","3","4","d","e","f","d","5","2","5","6","a">>

\* s.upper()
Upper(s) ==
    [i \in 1..Len(s) |->
        IF \E k \in 1..26 : LowerLetters[k] = s[i]
        THEN UpperLetters[CHOOSE k \in 1..26 : LowerLetters[k] = s[i]]
        ELSE s[i]]

\* new_used_mapping.get(inventory_type.upper(), ""), as the query text
NewUsedValue(inventory_type) ==
    LET t == Upper(inventory_type)
    IN  IF t = <<"N","E","W">> THEN <<"1">>
        ELSE IF t = <<"U","S","E","D">> THEN <<"2">>
        ELSE IF t = <<"N","E","W","_","C","E","R","T","I","F","I","E","D">> THEN <<"8">>
        ELSE <<>>

\* the parameters that vary; the others are literals of the code.  No input
\* makes the function raise, so it never returns None
_extract_search_params_from_dealer_page(html_content, dealer_entity_id, inventory_type) ==
    LET search_id == SearchQuotedValue(html_content, K_searchId)
        page_receipt == SearchQuotedValue(html_content, K_pageReceipt)
    IN  {[searchId |-> IF search_id # None THEN search_id ELSE FallbackSearchId,
          selectedEntity |-> <<"s","p">> \o dealer_entity_id,
          newUsed |-> NewUsedValue(inventory_type),
          pageReceipt |-> IF page_receipt # None THEN {page_receipt} ELSE {},
          pageNumber |-> {}]}

RECURSIVE AjaxCarsOfTiles(_, _)
\* the loop of _extract_cars_from_ajax_json: only the two standard types
AjaxCarsOfTiles(tiles, dealer_entity_id) ==
    IF Len(tiles) = 0 THEN <<>>
    ELSE LET tile == Head(tiles)
         IN  (IF tile.type = T_USED \/ tile.type = T_NEW
              THEN AsList(_extract_car_from_ajax_tile_data(
                              tile.data, dealer_entity_id, tile.type))
              ELSE <<>>) \o AjaxCarsOfTiles(Tail(tiles), dealer_entity_id)

_extract_cars_from_ajax_json(json_body, dealer_entity_id) ==
    AjaxCarsOfTiles(Get(json_body.tiles, <<>>), dealer_entity_id)

ModelChars == Letters \cup Digits \cup Whitespace \cup {"-"}

\* (\d{4})\s+([A-Za-z]+)\s+([A-Za-z0-9\s\-]+) matched at index i: the three
\* groups, or {} without a match.  When nothing of group 3 follows the second
\* gap, the gap gives its last space to group 3
TitleMatchAt(s, i) ==
    LET a == RunEnd(s, i + 4, Whitespace)
        b == RunEnd(s, a, Letters)
        c == RunEnd(s, b, Whitespace)
        d == RunEnd(s, c, ModelChars)
    IN  IF /\ i + 4 <= Len(s)
           /\ IsDigitStr(Slice(s, i, i + 4))
           /\ a > i + 4
           /\ b > a
           /\ c > b
           /\ (d > c \/ c - b >= 2)
        THEN {[year |-> Slice(s, i, i + 4),
               make |-> Slice(s, a, b),
               model |-> IF d > c THEN Slice(s, c, d) ELSE Slice(s, c - 1, c)]}
        ELSE {}

\* (make, model, year) of the leftmost match when its year is in range
_parse_car_title(title_text) ==
    LET hits == {i \in 0..Len(title_text) : TitleMatchAt(title_text, i) # {}}
    IN  IF hits = {} THEN {}
        ELSE LET m == CHOOSE x \in TitleMatchAt(title_text, SetMin(hits)) : TRUE
                 year == ToInt(m.year)
             IN  IF MinYear <= year /\ year <= MaxYear
                 THEN {[make |-> Strip(m.make), model |-> Strip(m.model),
                        year |-> year]}
                 ELSE {}

\* the keyword arguments both HTML fallback extractors pass to ScrapedCar:
\* url, mileage and the rest are no fields of the model, originalUrl is not
\* among them
FallbackCar(make, model, year, price) ==
    ScrapedCar([make |-> make, model |-> model, year |-> year, price |-> price,
                url |-> <<>>, features |-> <<>>, images |-> <<>>, mileage |-> 0,
                color |-> <<>>, transmission |-> <<>>, drivetrain |-> <<>>,
                fuel_type |-> <<>>, engine |-> <<>>, vin |-> <<>>,
                stock_number |-> <<>>])

\* make_elem, model_elem, year_elem are the texts of the elements the three
\* find() calls return, dollar the amount of the price element; int() of a
\* year text that is not a number raises, and so does the construction: both
\* end in the except branch and the extractor returns None
_extract_car_from_dealer_listing_container(container) ==
    IF container.make_elem # {} /\ container.model_elem # {}
       /\ container.year_elem # {}
    THEN LET make == Strip(Get(container.make_elem, <<>>))
             model == Strip(Get(container.model_elem, <<>>))
             year_text == Strip(Get(container.year_elem, <<>>))
         IN  IF ~IsDigitStr(year_text) THEN {}
             ELSE FallbackCar(make, model, ToInt(year_text),
                              Get(container.dollar, 0))
    ELSE {}

\* a container is the text of its title element, the amount of its price
\* element and the src of its img, each {} when the element is missing
_extract_car_from_ajax_listing_container(container) ==
    LET car_info == IF container.title = {} THEN {}
                    ELSE _parse_car_title(Get(container.title, <<>>))
    IN  IF car_info = {}
        THEN _extract_car_from_dealer_listing_container(container)
        ELSE LET info == CHOOSE x \in car_info : TRUE
             IN  ScrapedCar([make |-> info.make, model |-> info.model,
                             year |-> info.year,
                             price |-> Get(container.price, 0),
                             features |-> <<>>,
                             stats |-> <<>>,
                             images |-> IF Len(Get(container.src, <<>>)) > 0
                                        THEN <<Get(container.src, <<>>)>>
                                        ELSE <<>>,
                             originalUrl |-> <<>>,
                             fullTitle |-> IntToStr(info.year) \o SP \o info.make
                                           \o SP \o info.model])

RECURSIVE CarsOfContainers(_)
CarsOfContainers(containers) ==
    IF Len(containers) = 0 THEN <<>>
    ELSE AsList(_extract_car_from_ajax_listing_container(Head(containers)))
         \o CarsOfContainers(Tail(containers))

\* the tiles of the first embedded JSON that parses
_extract_cars_from_embedded_json(embedded) ==
    IF embedded = {} THEN <<>>
    ELSE _extract_cars_from_json_response(CHOOSE x \in embedded : TRUE)

PatternCap == 20

\* matches are the (make, model, year) groups car_pattern finds in the text;
\* a match whose construction raises is skipped
RECURSIVE CarsOfMatches(_)
CarsOfMatches(matches) ==
    IF Len(matches) = 0 THEN <<>>
    ELSE LET m == Head(matches)
         IN  (IF Len(Strip(m.make)) > 0 /\ Len(Strip(m.model)) > 0
                 /\ Len(Strip(m.year)) > 0
              THEN AsList(FallbackCar(Strip(m.make), Strip(m.model),
                                      ToInt(Strip(m.year)), 0))
              ELSE <<>>)
             \o CarsOfMatches(Tail(matches))

_extract_cars_from_html_patterns(html_content) ==
    CarsOfMatches(SubSeq(html_content.matches, 1,
                         IF Len(html_content.matches) < PatternCap
                         THEN Len(html_content.matches) ELSE PatternCap))

\* a JSON body gives the cars of its tiles; without them, and for a body that
\* is no JSON, the containers, the embedded JSON and the patterns are tried in
\* turn (the text of a JSON body holds no markup)
_extract_cars_from_ajax_response(r, dealer_entity_id) ==
    IF r.kind = "json"
    THEN _extract_cars_from_ajax_json(r.body, dealer_entity_id)
    ELSE LET cs == CarsOfContainers(r.body.containers)
         IN  IF Len(cs) > 0 THEN cs
             ELSE LET es == _extract_cars_from_embedded_json(r.body.embedded)
                  IN  IF Len(es) > 0 THEN es
                      ELSE _extract_cars_from_html_patterns(r.body)

\* totalListings of the root, else that of
\* srpTrackingData.defaultSRPListingCount, else 0; 0 for a body that is no JSON
_extract_total_cars_from_ajax_response(r) ==
    IF r.kind # "json" THEN 0
    ELSE IF Get(r.body.totalListings, 0) > 0 THEN Get(r.body.totalListings, 0)
    ELSE IF Get(r.body.srpTotalListings, 0) > 0 THEN Get(r.body.srpTotalListings, 0)
    ELSE 0

M_Unexpected == "Unexpected error"
M_LandingFailed == "Failed to get initial dealer page"
M_NoParams == "Failed to extract search parameters from dealer page"
M_AjaxFailed == "AJAX request failed"
M_NoAjaxCars == "No cars found in AJAX response"

cars_per_page == 23

\* a page count that rounds down
PagesFor_Floor(n) == n \div cars_per_page

\* (n + cars_per_page - 1) // cars_per_page
PagesFor(n) == (n + cars_per_page - 1) \div cars_per_page

\* InventorySearchResult(success=False, cars=[], totalResults=0,
\* currentPage=page_number, totalPages=0, hasNextPage=False, message=...)
DealerFailure(page_number, msg) ==
    [success |-> FALSE,
     cars |-> <<>>,
     totalResults |-> 0,
     currentPage |-> page_number,
     totalPages |-> 0,
     hasNextPage |-> FALSE,
     hasPreviousPage |-> FALSE,
     message |-> {msg},
     errorMessage |-> {}]

\* the result for the cars and the total of the AJAX response
DealerResultOf(cs, total_cars, page_number) ==
    IF Len(cs) = 0
    THEN DealerFailure(page_number, M_NoAjaxCars)
    ELSE IF total_cars > 0
    THEN LET total_pages == Max(1, PagesFor(total_cars))
         IN  [success |-> TRUE,
              cars |-> cs,
              totalResults |-> total_cars,
              currentPage |-> page_number,
              totalPages |-> total_pages,
              hasNextPage |-> page_number < total_pages,
              hasPreviousPage |-> FALSE,
              message |-> {"Successfully scraped cars from dealer page"},
              errorMessage |-> {}]
    ELSE [success |-> TRUE,
          cars |-> cs,
          totalResults |-> Len(cs),
          currentPage |-> page_number,
          totalPages |-> Max(1, PagesFor(Len(cs) * 2)),
          hasNextPage |-> Len(cs) >= cars_per_page,
          hasPreviousPage |-> FALSE,
          message |-> {"Successfully scraped cars from dealer page (estimated total)"},
          errorMessage |-> {}]

-----------------------------------------------------------------------------
(* simple_main.py: _extract_cars_from_search_page of its CarGurusScraper.  The
   page is the sequence of its elements; an element is its tag, its class,
   whether it has the attribute data-cg-car-id, and the texts found inside it
   ({} when the selector finds nothing) *)

E_div == <<"d","i","v">>
E_article == <<"a","r","t","i","c","l","e">>

\* tag[class*="part"]
SelectsClass(e, tag, part) == e.tag = tag /\ Contains(e.class, part)

\* the elements an entry of car_selectors selects
SelectorHits(soup_, k) ==
    SelectSeq(soup_, LAMBDA e :
        CASE k = 1 -> SelectsClass(e, E_div, <<"l","i","s","t","i","n","g","-","c","a","r","d">>)
          [] k = 2 -> SelectsClass(e, E_div, <<"c","a","r","-","l","i","s","t","i","n","g">>)
          [] k = 3 -> SelectsClass(e, E_div, <<"v","e","h","i","c","l","e","-","c","a","r","d">>)
          [] k = 4 -> e.tag = E_div /\ e.car_id
          [] k = 5 -> SelectsClass(e, E_article, <<"l","i","s","t","i","n","g">>)
          [] k = 6 -> SelectsClass(e, E_div, <<"r","e","s","u","l","t","-","i","t","e","m">>)
          [] k = 7 -> SelectsClass(e, E_div, <<"s","e","a","r","c","h","-","r","e","s","u","l","t">>)
          [] k = 8 -> SelectsClass(e, E_div, <<"l","i","s","t","i","n","g">>))

\* soup.find_all(['div', 'article'], class_=re.compile(
\*     r'.*car.*|.*listing.*|.*vehicle.*', re.I))
FallbackHits(soup_) ==
    SelectSeq(soup_, LAMBDA e :
        /\ e.tag \in {E_div, E_article}
        /\ \/ Contains(Lower(e.class), <<"c","a","r">>)
           \/ Contains(Lower(e.class), <<"l","i","s","t","i","n","g">>)
           \/ Contains(Lower(e.class), <<"v","e","h","i","c","l","e">>))

\* the elements of the first selector that finds any, else those of the
\* fallback, cut to 20
CarElements(soup_) ==
    LET ks == {k \in 1..8 : Len(SelectorHits(soup_, k)) > 0}
        found == IF ks = {} THEN FallbackHits(soup_)
                 ELSE SelectorHits(soup_, SetMin(ks))
    IN  SubSeq(found, 1, IF Len(found) < 20 THEN Len(found) ELSE 20)

WordChars == Letters \cup Digits \cup {"_"}

\* \b(19|20)\d{2}\b matches at index i
YearAt(s, i) ==
    /\ i + 4 <= Len(s)
    /\ IsDigitStr(Slice(s, i, i + 4))
    /\ Slice(s, i, i + 2) \in {<<"1","9">>, <<"2","0">>}
    /\ (i = 0 \/ s[i] \notin WordChars)
    /\ (i + 4 = Len(s) \/ s[i + 5] \notin WordChars)

SimpleDefaultYear == 2022

_extract_year_from_text(text) ==
    LET hits == {i \in 0..Len(text) : YearAt(text, i)}
    IN  IF hits = {} THEN SimpleDefaultYear
        ELSE ToInt(Slice(text, SetMin(hits), SetMin(hits) + 4))

\* text.replace(',', '')
WithoutCommas(s) == SelectSeq(s, LAMBDA c : c # ",")

\* the amount of the first run of digits; the texts of the model carry no
\* cents
_extract_price_from_text(text) ==
    LET t == WithoutCommas(text)
        hits == {i \in 0..(Len(t) - 1) : t[i + 1] \in Digits}
    IN  IF hits = {} THEN 0 ELSE ToInt(DigitRunAt(t, SetMin(hits)))

S_CarListing == <<"C","a","r"," ","L","i","s","t","i","n","g">>

_extract_car_from_listing(e) ==
    LET make == Get(e.make, <<>>)
        model == Get(e.model, <<>>)
        year == _extract_year_from_text(Get(e.year, <<>>))
        price == _extract_price_from_text(Get(e.price, <<>>))
        title == IF Len(Get(e.title, <<>>)) > 0 THEN Get(e.title, <<>>)
                 ELSE IF Len(make) > 0 /\ Len(model) > 0
                 THEN IntToStr(year) \o SP \o make \o SP \o model
                 ELSE S_CarListing
    IN  [make |-> IF Len(make) > 0 THEN make ELSE S_Unknown,
         model |-> IF Len(model) > 0 THEN model ELSE S_Unknown,
         year |-> IF year # 0 THEN year ELSE SimpleDefaultYear,
         price |-> price,
         features |-> <<>>,
         images |-> IF e.src = {} THEN <<S_Placeholder>> ELSE <<Get(e.src, <<>>)>>,
         fullTitle |-> title]

\* the sample car returned when no car was extracted
MockCar ==
    [make |-> <<"T","o","y","o","t","a">>,
     model |-> <<"C","a","m","r","y">>,
     year |-> 2022,
     price |-> 28500,
     features |-> <<<<"B","l","u","e","t","o","o","t","h">>, <<"B","a","c","k","u","p"," ","C","a","m","e","r","a">>>>,
     images |-> <<S_Placeholder>>,
     fullTitle |-> <<"2","0","2","2"," ","T","o","y","o","t","a"," ","C","a","m","r","y"," ","L","E"," ","(","M","o","c","k"," ","D","a","t","a",")">>]

RECURSIVE CarsOfElements(_)
CarsOfElements(es) ==
    IF Len(es) = 0 THEN <<>>
    ELSE <<_extract_car_from_listing(Head(es))>> \o CarsOfElements(Tail(es))

simple_extract_cars_from_search_page(soup_) ==
    LET cs == CarsOfElements(CarElements(soup_))
    IN  IF Len(cs) = 0 THEN <<MockCar>> ELSE cs

(* Inputs *)

MaxElements == 2

NoElement ==
    [tag |-> E_div, class |-> <<>>, car_id |-> FALSE, make |-> {}, model |-> {},
     year |-> {}, price |-> {}, title |-> {}, src |-> {}]
El_card ==
    [NoElement EXCEPT !.class = <<"l","i","s","t","i","n","g","-","c","a","r","d">>, !.make = {V_H}, !.model = {V_C},
                      !.year = {<<"Y","e","a","r"," ","2","0","2","0">>}, !.price = {<<"$","9",",","0","0","0">>},
                      !.src = {U_a}]
El_bare == [NoElement EXCEPT !.class = <<"l","i","s","t","i","n","g">>]
El_vehicle ==
    [NoElement EXCEPT !.tag = E_article, !.class = <<"V","e","h","i","c","l","e">>, !.make = {V_T},
                      !.model = {V_C}, !.year = {<<"x","2","0","2","0">>}]
El_nav == [NoElement EXCEPT !.class = <<"n","a","v">>, !.make = {V_H}]
Elements == {El_card, El_bare, El_vehicle, El_nav}
Soups == UNION {[1..n -> Elements] : n \in 0..MaxElements}

-----------------------------------------------------------------------------
(* simple_main.py: the tiles of a JSON search response *)

T_NEW_PRIORITY == <<"L","I","S","T","I","N","G","_","N","E","W","_","P","R","I","O","R","I","T","Y">>
T_USED_PRIORITY == <<"L","I","S","T","I","N","G","_","U","S","E","D","_","P","R","I","O","R","I","T","Y">>
T_CERTIFIED_PRIORITY == <<"L","I","S","T","I","N","G","_","C","E","R","T","I","F","I","E","D","_","P","R","I","O","R","I","T","Y">>

SimpleTileYear == 2024

\* the dict _extract_car_from_json_tile of simple_main.py returns
simple_extract_car_from_json_tile(td) ==
    LET make == Get(td.makeName, S_Unknown)
        model == Get(td.modelName, S_Unknown)
        year == Get(td.carYear, SimpleTileYear)
        listingTitle == Get(td.listingTitle, <<>>)
        title == IF Len(listingTitle) > 0 THEN listingTitle
                 ELSE IntToStr(year) \o SP \o make \o SP \o model
    IN  {[make |-> make,
          model |-> model,
          year |-> year,
          price |-> Get(td.price, 0),
          features |-> Get(td.options, <<>>),
          images |-> TileImages(td),
          fullTitle |-> title]}

RECURSIVE SimpleCarsOfTiles(_)
\* the loop of _extract_cars_from_json: only the three priority types
SimpleCarsOfTiles(tiles) ==
    IF Len(tiles) = 0 THEN <<>>
    ELSE LET tile == Head(tiles)
         IN  (IF /\ tile.type \in {T_NEW_PRIORITY, T_USED_PRIORITY,
                                   T_CERTIFIED_PRIORITY}
                 /\ HasData(tile.data)
              THEN AsList(simple_extract_car_from_json_tile(tile.data))
              ELSE <<>>) \o SimpleCarsOfTiles(Tail(tiles))

simple_extract_cars_from_json(body) == SimpleCarsOfTiles(Get(body.tiles, <<>>))

-----------------------------------------------------------------------------
(* Inputs of scrape_car and search_inventory *)

MaxPage == 2
MaxTiles == 2
MaxLinks == 2

\* the cap on the listing links scraped one by one: listing_matches[:10]
LinkCap == 10

Tail_noid == <<"/","C","a","r","s","/","x">>
Tail_id == <<"/","C","a","r","s","/","i","n","v","e","n","t","o","r","y","l","i","s","t","i","n","g","/","v","d","p","?","l","i","s","t","i","n","g","I","d","=","4","1">>

Hosts == {H_www, H_bare, H_evil}
GoodHosts == {H_www, H_bare}
UrlTails == {Tail_noid, Tail_id}

\* detail payloads: one that yields a record, one without a year, and one
\* without the 'listing' key
P_good == [listing |-> {L_valid}]
P_yearless ==
    [listing |-> {[EmptyListing EXCEPT !.makeName = {V_T}, !.modelName = {V_C},
                                       !.price = {25000}]}]
FetchPayloads == {P_good, P_yearless, NoPayload}

DetailResponses ==
    {[kind |-> k, body |-> NoPayload] :
        k \in {"timeout", "error", "status", "bad_json"}}
    \cup {[kind |-> "json", body |-> b] : b \in FetchPayloads}

\* search tiles: a used car, a tile whose year pydantic rejects, a MERCH tile
\* without car keys and a tile whose type only contains LISTING_
Tile_good ==
    [NoTile EXCEPT !.id = {V_id}, !.makeName = {V_H}, !.modelName = {V_C},
                   !.carYear = {2020}, !.price = {25000}]
Tile_year0 == [Tile_good EXCEPT !.carYear = {0}]
Tile_ad == [NoTile EXCEPT !.listingTitle = {V_TC}]

SearchTiles ==
    {[type |-> T_USED, data |-> Tile_good],
     [type |-> T_NEW, data |-> Tile_year0],
     [type |-> T_MERCH, data |-> Tile_ad],
     [type |-> T_PROMO, data |-> Tile_good]}

TileLists == UNION {[1..n -> SearchTiles] : n \in 0..MaxTiles}

\* the JSON embedded in a search page
NoListingJson ==
    [makeName |-> {}, make |-> {}, modelName |-> {}, model |-> {}, year |-> {},
     price |-> {}, url |-> {}, images |-> {}, features |-> {}, options |-> {},
     stats |-> {}]
E_good ==
    [NoListingJson EXCEPT !.make = {V_H}, !.modelName = {V_C}, !.year = {2021},
                          !.price = {25000}]
E_yearless == [E_good EXCEPT !.year = {}]
NoState ==
    [searchResults |-> {}, listings |-> {}, cars |-> {}, inventory |-> {},
     data |-> {}]
EmbeddedStates ==
    {NoState,
     [NoState EXCEPT !.listings = {<<E_good, E_yearless>>}],
     [NoState EXCEPT !.searchResults = {[listings |-> {<<E_yearless>>}]},
                     !.cars = {<<E_good>>}]}

\* the hrefs of a search page that contain "inventorylisting"
Path_id == <<"/","C","a","r","s","/","i","n","v","e","n","t","o","r","y","l","i","s","t","i","n","g","/","v","d","p","?","l","i","s","t","i","n","g","I","d","=","4","1">>
Path_noid == <<"/","C","a","r","s","/","i","n","v","e","n","t","o","r","y","l","i","s","t","i","n","g","/","x">>
Hrefs ==
    {[host |-> <<>>, path |-> Path_id],
     [host |-> <<>>, path |-> Path_noid],
     [host |-> H_evil, path |-> Path_id]}
\* a page with one link more than the cap: the links within the cap carry no
\* listing id, the one beyond it does
LongPage ==
    [i \in 1..(LinkCap + 1) |->
        [host |-> <<>>, path |-> IF i <= LinkCap THEN Path_noid ELSE Path_id]]
HrefLists == UNION {[1..n -> Hrefs] : n \in 0..MaxLinks} \cup {LongPage}

\* totalListings is the total a JSON payload names; search_inventory does not
\* read it
NoBody == [tiles |-> {}, embedded |-> {}, hrefs |-> <<>>, totalListings |-> {}]

\* embedded is {} when the page has no window.__INITIAL_STATE__ or when its
\* JSON does not parse
SearchResponses ==
    {[kind |-> k, body |-> NoBody] :
        k \in {"timeout", "error", "status", "bad_json"}}
    \cup {[kind |-> "json", body |-> [NoBody EXCEPT !.tiles = t]] :
            t \in {{}} \cup {{ts} : ts \in TileLists}}
    \cup {[kind |-> "json",
           body |-> [NoBody EXCEPT !.tiles = {ts}, !.totalListings = {163}]] :
            ts \in TileLists}
    \cup {[kind |-> "html", body |-> [NoBody EXCEPT !.embedded = e, !.hrefs = h]] :
            e \in {{}} \cup {{s} : s \in EmbeddedStates}, h \in HrefLists}

(* Inputs of scrape_dealer_page *)

MaxContainers == 2

DealerId == <<"3","1","7","1","3","1">>
DealerUrl == "https://www.cargurus.com/Cars/m-Dealer-sp317131"
DealerPageNumbers == {1, 7, 8}
InventoryTypes == {<<"A","L","L">>, <<"u","s","e","d">>}

\* dealer pages: both tokens, the searchId alone, the pageReceipt alone, none,
\* and a page whose first searchId has no value
L_both == <<"{","'","s","e","a","r","c","h","I","d","'",":","'","s","1","'",",","'","p","a","g","e","R","e","c","e","i","p","t","'",":","'","r","1","'","}">>
L_searchId == <<"v","a","r"," ","s","e","a","r","c","h","I","d"," ","="," ","'","s","2","'",";">>
L_pageReceipt == <<"p","a","g","e","R","e","c","e","i","p","t",":"," ">> \o <<"\"">> \o <<"r","3">> \o <<"\"">>
L_none == <<"<","h","t","m","l",">">>
L_second == <<"s","e","a","r","c","h","I","d",":"," ","'","'"," ","s","e","a","r","c","h","I","d","=","'","s","4","'">>
LandingTexts == {L_both, L_searchId, L_pageReceipt, L_none, L_second}

LandingResponses ==
    {[kind |-> k, text |-> <<>>] : k \in {"timeout", "error", "status"}}
    \cup {[kind |-> "html", text |-> t] : t \in LandingTexts}

NoAjaxBody ==
    [tiles |-> {}, totalListings |-> {}, srpTotalListings |-> {},
     containers |-> <<>>, embedded |-> {}, matches |-> <<>>]

\* the totals an AJAX response names
Totals == {{}, {0}, {23}, {24}, {163}}

Title_good == <<"2","0","2","0"," ","H","o","n","d","a"," ","C","i","v","i","c">>
Title_old == <<"1","8","9","9"," ","H","o","n","d","a"," ","C","i","v","i","c">>
Year_2020 == <<"2","0","2","0">>
Year_worded == <<"Y","e","a","r"," ","2","0","2","0">>
NoContainer ==
    [title |-> {}, price |-> {}, src |-> {}, make_elem |-> {}, model_elem |-> {},
     year_elem |-> {}, dollar |-> {}]
\* a container whose make, model and year elements are found
Container_elems ==
    [NoContainer EXCEPT !.make_elem = {V_H}, !.model_elem = {V_C},
                        !.year_elem = {Year_2020}, !.dollar = {9000}]
Containers ==
    {NoContainer,
     [NoContainer EXCEPT !.title = {Title_good}, !.price = {9000}, !.src = {U_a}],
     [NoContainer EXCEPT !.title = {Title_old}],
     Container_elems,
     [Container_elems EXCEPT !.year_elem = {Year_worded}]}
\* the groups of one match of car_pattern
Match_good == [make |-> V_H, model |-> V_C, year |-> Year_2020]
MatchLists == {<<>>, <<Match_good>>, <<Match_good, Match_good>>}
ContainerLists == UNION {[1..n -> Containers] : n \in 0..MaxContainers}

AjaxResponses ==
    {[kind |-> k, body |-> NoAjaxBody] : k \in {"timeout", "error", "status"}}
    \cup {[kind |-> "json",
           body |-> [NoAjaxBody EXCEPT !.tiles = t, !.totalListings = n,
                                       !.srpTotalListings = m]] :
            t \in {{}} \cup {{ts} : ts \in TileLists}, n \in Totals,
            m \in {{}, {46}}}
    \cup {[kind |-> "html",
           body |-> [NoAjaxBody EXCEPT !.containers = c, !.embedded = e,
                                       !.matches = m]] :
            c \in ContainerLists, m \in MatchLists,
            e \in {{}, {[NoBody EXCEPT !.tiles = {<<[type |-> T_USED, data |-> Tile_good]>>}]}}}

\* one tile of a JSON response to be classified: its type and its data
Tile_makeonly == [NoTile EXCEPT !.makeName = {V_H}]
ClassTileTypes == {T_USED, T_NEW, T_USED_PRIORITY, T_MERCH, T_PROMO, <<>>}
ClassTileData == {NoTile, Tile_good, Tile_year0, Tile_ad, Tile_makeonly}

\* the response that holds the one tile
OneTileBody(tt, td) == [NoBody EXCEPT !.tiles = {<<[type |-> tt, data |-> td]>>}]

-----------------------------------------------------------------------------
(* Calls and returns *)

\* the locals of one scrape_car call
FreshLocals ==
    [listing_id |-> None, matched |-> 0, json_data |-> NoPayload,
     attempt |-> 0, fetched |-> "pending", detail_log |-> <<>>,
     detail_sleeps |-> <<>>]

Locals ==
    [listing_id |-> listing_id, matched |-> matched, json_data |-> json_data,
     attempt |-> attempt, fetched |-> fetched, detail_log |-> detail_log,
     detail_sleeps |-> detail_sleeps]

SetLocals(l) ==
    /\ listing_id' = l.listing_id
    /\ matched' = l.matched
    /\ json_data' = l.json_data
    /\ attempt' = l.attempt
    /\ fetched' = l.fetched
    /\ detail_log' = l.detail_log
    /\ detail_sleeps' = l.detail_sleeps

\* no extraction under way
ExIdle ==
    /\ json_data = NoPayload
    /\ tile_data = NoTile
    /\ tile_type = T_USED
    /\ car = {}
    /\ soup = <<>>

UrlIdle ==
    /\ url = H_www
    /\ urlHost = H_www
    /\ listing_id = None
    /\ matched = 0

FetchIdle ==
    /\ attempt = 0
    /\ fetched = "pending"
    /\ detail_log = <<>>
    /\ detail_sleeps = <<>>

SearchIdle ==
    /\ request = {}
    /\ search_attempt = 0
    /\ search_log = <<>>
    /\ search_sleeps = <<>>
    /\ links = <<>>
    /\ link_sleeps = 0
    /\ cars = <<>>
    /\ result = {}

\* the session as __init__ leaves it, no GET sent
SessionIdle ==
    /\ headers = InitHeaders
    /\ sent = {}

DealerIdle ==
    /\ dealer_log = <<>>
    /\ search_params = {}

\* what a step inside scrape_car leaves alone
callerVars ==
    <<op, tile_data, tile_type, request, search_attempt, search_log,
      search_sleeps, headers, dealer_log, search_params, soup>>

\* for i in range(self.max_retries): another iteration follows attempt a
MoreAttempts(a) == a + 1 < max_retries

\* the text of a link and the host it leads to
HrefText(h) == h.host \o h.path
HrefHost(h) == IF h.host = <<>> THEN H_www ELSE h.host

\* listing_matches without the slice
Capped_All(hs) == hs

\* listing_matches[:10]
Capped(hs) == SubSeq(hs, 1, IF Len(hs) < LinkCap THEN Len(hs) ELSE LinkCap)

\* one iteration of the link loop of _extract_cars_from_search_page begins:
\* a relative link is made absolute and scrape_car is called with it
StartLink(h, rest, cs, pauses) ==
    /\ pc' = "sc_validate"
    /\ url' = IF StartsWith(HrefText(h), <<"/">>)
              THEN H_www \o HrefText(h) ELSE HrefText(h)
    /\ urlHost' = HrefHost(h)
    /\ links' = rest
    /\ cars' = cs
    /\ link_sleeps' = pauses
    /\ car' = {}
    /\ SetLocals(FreshLocals)
    /\ UNCHANGED result

\* search_inventory returns res
FinishSearch(res, cs, pauses, c, l) ==
    /\ pc' = "done"
    /\ result' = {res}
    /\ cars' = cs
    /\ link_sleeps' = pauses
    /\ car' = c
    /\ SetLocals(l)
    /\ UNCHANGED <<url, urlHost, links>>

\* scrape_car returns c (None: {}), its locals being l.  Called by the
\* handler of /api/scrape, the handler goes on with the value.  Called by
\* _extract_cars_from_search_page, the car is appended, the loop pauses one
\* second and goes on to the next link; after the last link search_inventory
\* returns its result.
ScReturn(c, l) ==
    IF op \in {"scrape_car", "/api/scrape"}
    THEN /\ pc' = IF op = "scrape_car" THEN "done" ELSE "api_scraped"
         /\ car' = c
         /\ SetLocals(l)
         /\ UNCHANGED <<url, urlHost, links, cars, link_sleeps, result>>
    ELSE LET cs == cars \o AsList(c)
             page == Get(request, [pageNumber |-> 1]).pageNumber
         IN  IF Len(links) > 0
             THEN StartLink(Head(links), Tail(links), cs, link_sleeps + 1)
             ELSE FinishSearch(SearchResultOf(cs, page), cs, link_sleeps + 1, c, l)

\* _extract_listing_id returns v, found by pattern k (0: by none)
IdReturn(k, v) ==
    IF op = "_extract_listing_id"
    THEN /\ listing_id' = v
         /\ matched' = k
         /\ pc' = "id_done"
         /\ UNCHANGED <<url, urlHost, json_data, car, links, cars, link_sleeps,
                        result>>
         /\ UNCHANGED fetchVars
    ELSE IF v = None
    THEN ScReturn({}, [Locals EXCEPT !.listing_id = v, !.matched = k])
    ELSE /\ listing_id' = v
         /\ matched' = k
         /\ pc' = "sc_fetch"
         /\ UNCHANGED <<url, urlHost, json_data, car, links, cars, link_sleeps,
                        result>>
         /\ UNCHANGED fetchVars

-----------------------------------------------------------------------------
(* _extract_listing_id, one step per pattern *)

\* step k: try pattern k, return its digits or go on to the next pattern;
\* after the last pattern return None
TryPattern(k) ==
    /\ pc = "id_pattern"
    /\ matched = -k
    /\ LET v == PatternAt(k, url)
       IN  IF v # None THEN IdReturn(k, v)
           ELSE IF k < NumPatterns
                THEN /\ matched' = -(k + 1)
                     /\ UNCHANGED <<listing_id, pc, url, urlHost, json_data,
                                    car, links, cars, link_sleeps, result>>
                     /\ UNCHANGED fetchVars
                ELSE IdReturn(0, None)
    /\ UNCHANGED callerVars
    /\ UNCHANGED sent

TryListingIdParam == TryPattern(1)
TrySlashListing == TryPattern(2)
TryHashListing == TryPattern(3)
TryPathPatterns == TryPattern(4)
TryQueryPatterns == TryPattern(5)
TryDigitFallback == TryPattern(6)

InitUrl ==
    /\ op = "_extract_listing_id"
    /\ pc = "id_pattern"
    /\ urlHost \in {H_www}
    /\ \E b \in UrlBases, ps \in PieceSeqs : url = urlHost \o b \o Concat(ps)
    /\ listing_id = None
    /\ matched = -1
    /\ ExIdle
    /\ FetchIdle
    /\ SearchIdle
    /\ SessionIdle
    /\ DealerIdle

NextUrl ==
    \/ TryListingIdParam
    \/ TrySlashListing
    \/ TryHashListing
    \/ TryPathPatterns
    \/ TryQueryPatterns
    \/ TryDigitFallback

SpecUrl == InitUrl /\ [][NextUrl]_vars

-----------------------------------------------------------------------------
(* The extractors applied to one payload *)

ExtractCarDataFromJson ==
    /\ op = "_extract_car_data_from_json"
    /\ pc = "start"
    /\ car' = _extract_car_data_from_json(json_data, url)
    /\ pc' = "done"
    /\ UNCHANGED <<op, json_data, tile_data, tile_type, soup>>
    /\ UNCHANGED urlVars
    /\ UNCHANGED fetchVars
    /\ UNCHANGED searchVars
    /\ UNCHANGED sessionVars
    /\ UNCHANGED dealerVars

ExtractCarFromJsonTile ==
    /\ op = "_extract_car_from_json_tile"
    /\ pc = "start"
    /\ car' = _extract_car_from_json_tile(tile_data)
    /\ pc' = "done"
    /\ UNCHANGED <<op, json_data, tile_data, tile_type, soup>>
    /\ UNCHANGED urlVars
    /\ UNCHANGED fetchVars
    /\ UNCHANGED searchVars
    /\ UNCHANGED sessionVars
    /\ UNCHANGED dealerVars

ExtractCarFromAjaxTileData ==
    /\ op = "_extract_car_from_ajax_tile_data"
    /\ pc = "start"
    /\ car' = _extract_car_from_ajax_tile_data(tile_data, <<>>, tile_type)
    /\ pc' = "done"
    /\ UNCHANGED <<op, json_data, tile_data, tile_type, soup>>
    /\ UNCHANGED urlVars
    /\ UNCHANGED fetchVars
    /\ UNCHANGED searchVars
    /\ UNCHANGED sessionVars
    /\ UNCHANGED dealerVars

\* simple_main.py: the cars of a parsed search page
SimpleExtractCarsFromSearchPage ==
    /\ op = "simple_main._extract_cars_from_search_page"
    /\ pc = "start"
    /\ cars' = simple_extract_cars_from_search_page(soup)
    /\ pc' = "done"
    /\ UNCHANGED <<op, request, search_attempt, search_log, search_sleeps, links,
                   link_sleeps, result>>
    /\ UNCHANGED exVars
    /\ UNCHANGED urlVars
    /\ UNCHANGED fetchVars
    /\ UNCHANGED sessionVars
    /\ UNCHANGED dealerVars

\* the cars of a search response that holds one tile
ExtractCarsFromJsonResponse ==
    /\ op = "_extract_cars_from_json_response"
    /\ pc = "start"
    /\ cars' = _extract_cars_from_json_response(OneTileBody(tile_type, tile_data))
    /\ pc' = "done"
    /\ UNCHANGED <<op, request, search_attempt, search_log, search_sleeps, links,
                   link_sleeps, result>>
    /\ UNCHANGED exVars
    /\ UNCHANGED urlVars
    /\ UNCHANGED fetchVars
    /\ UNCHANGED sessionVars
    /\ UNCHANGED dealerVars

\* the cars of a dealer AJAX response that holds one tile
ExtractCarsFromAjaxJson ==
    /\ op = "_extract_cars_from_ajax_json"
    /\ pc = "start"
    /\ cars' = _extract_cars_from_ajax_json(OneTileBody(tile_type, tile_data), <<>>)
    /\ pc' = "done"
    /\ UNCHANGED <<op, request, search_attempt, search_log, search_sleeps, links,
                   link_sleeps, result>>
    /\ UNCHANGED exVars
    /\ UNCHANGED urlVars
    /\ UNCHANGED fetchVars
    /\ UNCHANGED sessionVars
    /\ UNCHANGED dealerVars

\* simple_main.py: the cars of a search response that holds one tile
SimpleExtractCarsFromJson ==
    /\ op = "simple_main._extract_cars_from_json"
    /\ pc = "start"
    /\ cars' = simple_extract_cars_from_json(OneTileBody(tile_type, tile_data))
    /\ pc' = "done"
    /\ UNCHANGED <<op, request, search_attempt, search_log, search_sleeps, links,
                   link_sleeps, result>>
    /\ UNCHANGED exVars
    /\ UNCHANGED urlVars
    /\ UNCHANGED fetchVars
    /\ UNCHANGED sessionVars
    /\ UNCHANGED dealerVars

\* the operations that classify the tiles of a response
TileListOps ==
    {"_extract_cars_from_json_response", "_extract_cars_from_ajax_json",
     "simple_main._extract_cars_from_json"}

InitExtract ==
    /\ pc = "start"
    /\ UrlIdle
    /\ FetchIdle
    /\ SearchIdle
    /\ SessionIdle
    /\ DealerIdle
    /\ car = {}
    /\ \/ /\ op = "_extract_car_data_from_json"
          /\ json_data \in DetailPayloads
          /\ tile_data = NoTile
          /\ tile_type = T_USED
          /\ soup = <<>>
       \/ /\ op = "simple_main._extract_cars_from_search_page"
          /\ json_data = NoPayload
          /\ tile_data = NoTile
          /\ tile_type = T_USED
          /\ soup \in Soups
       \/ /\ op = "_extract_car_from_json_tile"
          /\ json_data = NoPayload
          /\ tile_data \in Tiles \cup RangeTiles
          /\ tile_type = T_USED
          /\ soup = <<>>
       \/ /\ op = "_extract_car_from_ajax_tile_data"
          /\ json_data = NoPayload
          /\ tile_data \in Tiles \cup RangeTiles
          /\ tile_type \in TileTypes
          /\ soup = <<>>
       \/ /\ op \in TileListOps
          /\ json_data = NoPayload
          /\ tile_data \in ClassTileData
          /\ tile_type \in ClassTileTypes
          /\ soup = <<>>

NextExtract ==
    \/ ExtractCarDataFromJson
    \/ ExtractCarFromJsonTile
    \/ ExtractCarFromAjaxTileData
    \/ SimpleExtractCarsFromSearchPage
    \/ ExtractCarsFromJsonResponse
    \/ ExtractCarsFromAjaxJson
    \/ SimpleExtractCarsFromJson

SpecExtract == InitExtract /\ [][NextExtract]_vars

-----------------------------------------------------------------------------
(* scrape_car *)

\* lines 53-58: the url is validated; a valid one goes on to
\* _extract_listing_id
ScValidate ==
    /\ pc = "sc_validate"
    /\ IF _is_valid_cargurus_url(url)
       THEN /\ pc' = "id_pattern"
            /\ matched' = -1
            /\ UNCHANGED <<listing_id, url, urlHost, json_data, car, links,
                           cars, link_sleeps, result>>
            /\ UNCHANGED fetchVars
       ELSE ScReturn({}, Locals)
    /\ UNCHANGED callerVars
    /\ UNCHANGED sent

\* one iteration of the loop of _fetch_json_data: the GET, the reading of the
\* response and the backoff
DetailGet ==
    /\ pc = "sc_fetch"
    /\ \E r \in DetailResponses :
        /\ detail_log' = Append(detail_log, r)
        /\ sent' = sent \cup {Get_("detail", headers)}
        /\ IF r.kind \in Exceptions /\ ~LoopCatches(r.kind)
           THEN /\ fetched' = "raised"
                /\ pc' = "sc_fetched"
                /\ UNCHANGED <<json_data, attempt, detail_sleeps>>
           ELSE IF DetailAttemptSucceeds(r)
           THEN /\ fetched' = "payload"
                /\ json_data' = r.body
                /\ pc' = "sc_fetched"
                /\ UNCHANGED <<attempt, detail_sleeps>>
           ELSE /\ detail_sleeps' = Backoff(detail_sleeps, attempt)
                /\ IF MoreAttempts(attempt)
                   THEN /\ attempt' = attempt + 1
                        /\ UNCHANGED <<fetched, pc>>
                   ELSE /\ fetched' = "none"
                        /\ pc' = "sc_fetched"
                        /\ UNCHANGED attempt
                /\ UNCHANGED json_data
    /\ UNCHANGED <<listing_id, matched, url, urlHost, car, links, cars,
                   link_sleeps, result>>
    /\ UNCHANGED callerVars

\* lines 68-87: without a payload scrape_car returns None, with one it
\* returns what _extract_car_data_from_json makes of it
ScExtract ==
    /\ pc = "sc_fetched"
    /\ IF fetched = "payload"
       THEN ScReturn(_extract_car_data_from_json(json_data, url), Locals)
       ELSE ScReturn({}, Locals)
    /\ UNCHANGED callerVars
    /\ UNCHANGED sent

(* search_inventory *)

\* the attempt failed: backoff, then the next attempt or the failure result
SearchRetry ==
    /\ search_sleeps' = Backoff(search_sleeps, search_attempt)
    /\ IF MoreAttempts(search_attempt)
       THEN /\ search_attempt' = search_attempt + 1
            /\ UNCHANGED <<pc, result, cars, link_sleeps, car, url, urlHost,
                           links, listing_id, matched, json_data>>
            /\ UNCHANGED fetchVars
       ELSE /\ UNCHANGED search_attempt
            /\ FinishSearch(SearchFailure(M_Exhausted), cars, link_sleeps, car,
                            Locals)

\* _extract_cars_from_search_page: the cars of the embedded JSON; without
\* them the links are scraped one by one
SearchPage(body, page) ==
    LET cs == IF body.embedded = {} THEN <<>>
              ELSE _extract_cars_from_json_data(Get(body.embedded, NoState))
        hs == Capped(body.hrefs)
    IN  IF Len(cs) = 0 /\ Len(hs) > 0
        THEN StartLink(Head(hs), Tail(hs), cs, link_sleeps)
        ELSE FinishSearch(SearchResultOf(cs, page), cs, link_sleeps, car, Locals)

\* one iteration of the loop of search_inventory; the headers of the session
\* are written before the loop, which every further iteration finds done
SearchGet ==
    /\ op = "search_inventory"
    /\ pc = "si_get"
    /\ \E r \in SearchResponses :
        LET page == Get(request, [pageNumber |-> 1]).pageNumber
        IN  /\ search_log' = Append(search_log, r)
            /\ headers' = SearchHeaders(headers)
            /\ sent' = sent \cup {Get_("search", SearchHeaders(headers))}
            /\ IF r.kind \in Exceptions /\ ~LoopCatches(r.kind)
               THEN /\ FinishSearch(SearchFailure(M_Internal), cars,
                                    link_sleeps, car, Locals)
                    /\ UNCHANGED <<search_attempt, search_sleeps>>
               ELSE IF r.kind = "json"
               THEN LET cs == _extract_cars_from_json_response(r.body)
                    IN  /\ FinishSearch(SearchResultOf(cs, page), cs,
                                        link_sleeps, car, Locals)
                        /\ UNCHANGED <<search_attempt, search_sleeps>>
               ELSE IF r.kind = "bad_json"
               THEN /\ FinishSearch(SearchFailure(M_BadJson), cars,
                                    link_sleeps, car, Locals)
                    /\ UNCHANGED <<search_attempt, search_sleeps>>
               ELSE IF r.kind = "html"
               THEN /\ SearchPage(r.body, page)
                    /\ UNCHANGED <<search_attempt, search_sleeps>>
               ELSE SearchRetry
    /\ UNCHANGED <<op, tile_data, tile_type, request, soup>>
    /\ UNCHANGED dealerVars

(* scrape_dealer_page *)

\* scrape_dealer_page returns res
FinishDealer(res) ==
    /\ pc' = "done"
    /\ result' = {res}
    /\ cars' = res.cars

\* the GET of the dealer page, the scraping of the parameters and the update
\* of the headers of the session
DealerLandingGet ==
    /\ op = "scrape_dealer_page"
    /\ pc = "dp_landing"
    /\ \E r \in LandingResponses :
        LET req == CHOOSE q \in request : TRUE
            params == _extract_search_params_from_dealer_page(
                          r.text, req.dealerEntityId, req.inventoryType)
        IN  /\ dealer_log' = Append(dealer_log, [target |-> "landing", response |-> r])
            /\ sent' = sent \cup {Get_("landing", headers)}
            /\ IF r.kind \in Exceptions
               THEN /\ FinishDealer(DealerFailure(req.pageNumber, M_Unexpected))
                    /\ UNCHANGED <<headers, search_params>>
               ELSE IF r.kind = "status"
               THEN /\ FinishDealer(DealerFailure(req.pageNumber, M_LandingFailed))
                    /\ UNCHANGED <<headers, search_params>>
               ELSE IF params = {}
               THEN /\ FinishDealer(DealerFailure(req.pageNumber, M_NoParams))
                    /\ UNCHANGED <<headers, search_params>>
               ELSE /\ headers' = DealerHeaders(headers, req.dealerUrl)
                    /\ search_params' =
                           {[p EXCEPT !.pageNumber = {req.pageNumber}] : p \in params}
                    /\ pc' = "dp_ajax"
                    /\ UNCHANGED <<result, cars>>
    /\ UNCHANGED <<op, request, search_attempt, search_log, search_sleeps, links,
                   link_sleeps>>
    /\ UNCHANGED urlVars
    /\ UNCHANGED exVars
    /\ UNCHANGED fetchVars

\* the GET of searchPreflight.action with the parameters, and the result
DealerAjaxGet ==
    /\ op = "scrape_dealer_page"
    /\ pc = "dp_ajax"
    /\ \E r \in AjaxResponses :
        LET req == CHOOSE q \in request : TRUE
        IN  /\ dealer_log' = Append(dealer_log, [target |-> "ajax", response |-> r])
            /\ sent' = sent \cup {[Get_("ajax", headers) EXCEPT !.params = search_params]}
            /\ IF r.kind \in Exceptions
               THEN FinishDealer(DealerFailure(req.pageNumber, M_Unexpected))
               ELSE IF r.kind = "status"
               THEN FinishDealer(DealerFailure(req.pageNumber, M_AjaxFailed))
               ELSE FinishDealer(DealerResultOf(
                        _extract_cars_from_ajax_response(r, req.dealerEntityId),
                        _extract_total_cars_from_ajax_response(r),
                        req.pageNumber))
    /\ UNCHANGED <<op, request, search_attempt, search_log, search_sleeps, links,
                   link_sleeps, headers, search_params>>
    /\ UNCHANGED urlVars
    /\ UNCHANGED exVars
    /\ UNCHANGED fetchVars

(* The calls *)

\* the calls of the API on the instance, each with its arguments
ScrapeCarCalls ==
    {[op |-> "scrape_car", pc |-> "sc_validate", url |-> h \o t, urlHost |-> h,
      request |-> {}] : h \in Hosts, t \in UrlTails}

SearchCalls ==
    {[op |-> "search_inventory", pc |-> "si_get", url |-> H_www,
      urlHost |-> H_www, request |-> {[pageNumber |-> p]}] : p \in 1..MaxPage}

DealerCalls ==
    {[op |-> "scrape_dealer_page", pc |-> "dp_landing", url |-> H_www,
      urlHost |-> H_www,
      request |-> {[pageNumber |-> p, dealerEntityId |-> DealerId,
                    dealerUrl |-> DealerUrl, inventoryType |-> t]}] :
        p \in DealerPageNumbers, t \in InventoryTypes}

ApiCalls == ScrapeCarCalls \cup SearchCalls \cup DealerCalls

\* the instance after __init__, its first call begun
Init ==
    /\ tile_data = NoTile
    /\ tile_type = T_USED
    /\ json_data = NoPayload
    /\ soup = <<>>
    /\ car = {}
    /\ listing_id = None
    /\ matched = 0
    /\ FetchIdle
    /\ search_attempt = 0
    /\ search_log = <<>>
    /\ search_sleeps = <<>>
    /\ links = <<>>
    /\ link_sleeps = 0
    /\ cars = <<>>
    /\ result = {}
    /\ SessionIdle
    /\ DealerIdle
    /\ \E c \in ApiCalls :
        /\ op = c.op
        /\ pc = c.pc
        /\ url = c.url
        /\ urlHost = c.urlHost
        /\ request = c.request

\* the call has returned and the next call on the same instance begins: its
\* locals are fresh, the session keeps its headers
NextCall ==
    /\ pc = "done"
    /\ \E c \in ApiCalls :
        /\ op' = c.op
        /\ pc' = c.pc
        /\ url' = c.url
        /\ urlHost' = c.urlHost
        /\ request' = c.request
    /\ SetLocals(FreshLocals)
    /\ car' = {}
    /\ search_attempt' = 0
    /\ search_log' = <<>>
    /\ search_sleeps' = <<>>
    /\ links' = <<>>
    /\ link_sleeps' = 0
    /\ cars' = <<>>
    /\ result' = {}
    /\ sent' = {}
    /\ dealer_log' = <<>>
    /\ search_params' = {}
    /\ UNCHANGED <<headers, tile_data, tile_type, soup>>

Next ==
    \/ ScValidate
    \/ TryListingIdParam
    \/ TrySlashListing
    \/ TryHashListing
    \/ TryPathPatterns
    \/ TryQueryPatterns
    \/ TryDigitFallback
    \/ DetailGet
    \/ ScExtract
    \/ SearchGet
    \/ DealerLandingGet
    \/ DealerAjaxGet
    \/ NextCall

Spec == Init /\ [][Next]_vars

-----------------------------------------------------------------------------
(* The handlers of the API (backend/main.py) *)

\* the prefix both handlers test the url with
S_ApiPrefix == <<"h","t","t","p","s",":","/","/","w","w","w",".","c","a","r","g","u","r","u","s",".","c","o","m">>

\* raise HTTPException(status_code=..., detail=...)
HTTPException(status_code, detail) ==
    [status_code |-> status_code, detail |-> detail]

\* ScrapeResponse(success=..., data=..., error=...)
ScrapeResponse(success, data, error) ==
    [success |-> success, data |-> data, error |-> error]

M_ScrapeFailed == "Failed to extract car details from the provided URL"
M_NoInventoryType ==
    "Internal server error: 'DealerInventoryRequest' object has no attribute 'inventoryType'"

\* the fields of a DealerInventoryRequest; a key of the body that is not a
\* field is dropped when the request is parsed
DealerInventoryRequest(entity, name, dealer_url, page) ==
    [dealerEntityId |-> entity, dealerName |-> name, dealerUrl |-> dealer_url,
     pageNumber |-> page]

\* request.<name> evaluates without AttributeError
HasAttr(obj, name) == name \in DOMAIN obj

\* the except clause of the handlers: InventorySearchResult(success=False,
\* errorMessage=..., processingTime=0.0), the other fields at their defaults
HandlerFailure(msg) ==
    [success |-> FALSE,
     cars |-> <<>>,
     totalResults |-> 0,
     currentPage |-> 1,
     totalPages |-> 1,
     hasNextPage |-> FALSE,
     hasPreviousPage |-> FALSE,
     message |-> {},
     errorMessage |-> {msg}]

\* the handler passes the url on to scraper.scrape_car
ScrapeHandlerAccepts(u) == StartsWith(u, S_ApiPrefix)

\* lines 181-194: the checks of the dealer handler, the detail of the first
\* one that fails ({}: none fails)
DealerHandlerRejects(req) ==
    IF req.dealerEntityId = <<>> THEN {"Dealer entity ID is required"}
    ELSE IF req.dealerName = <<>> THEN {"Dealer name is required"}
    ELSE IF req.dealerUrl = <<>> THEN {"Dealer URL is required"}
    ELSE IF ~StartsWith(req.dealerUrl, S_ApiPrefix)
    THEN {"Invalid CarGurus dealer URL"}
    ELSE IF req.pageNumber < 1 THEN {"Page number must be at least 1"}
    ELSE {}

\* what no step of a handler touches
handlerFrame ==
    <<url, urlHost, listing_id, matched, json_data, tile_data, tile_type, car,
      attempt, fetched, detail_log, detail_sleeps, search_attempt, search_log,
      search_sleeps, links, link_sleeps, cars, headers, sent, dealer_log,
      search_params, soup>>

\* POST /api/scrape, lines 93-101: the url is tested and scrape_car called
ScrapeCargurus ==
    /\ op = "/api/scrape"
    /\ pc = "api_handler"
    /\ IF ~ScrapeHandlerAccepts(url)
       THEN /\ result' = {HTTPException(400, "Invalid CarGurus URL")}
            /\ pc' = "done"
       ELSE /\ pc' = "sc_validate"
            /\ UNCHANGED result
    /\ UNCHANGED <<op, request>>
    /\ UNCHANGED handlerFrame

\* lines 103-111: scrape_car has returned car_data
ScrapeCargurusReturn ==
    /\ op = "/api/scrape"
    /\ pc = "api_scraped"
    /\ result' = {IF car # {}
                  THEN ScrapeResponse(TRUE, car, {})
                  ELSE ScrapeResponse(FALSE, {}, {M_ScrapeFailed})}
    /\ pc' = "done"
    /\ UNCHANGED <<op, request>>
    /\ UNCHANGED handlerFrame

\* POST /api/dealer/inventory, lines 177-214.  The arguments of
\* scrape_dealer_page are evaluated before the call; the one that raises
\* ends the handler in its except clause.  With all four evaluated the
\* handler returns what scrape_dealer_page returns.
ScrapeDealerInventory ==
    /\ op = "/api/dealer/inventory"
    /\ pc = "api_handler"
    /\ LET req == CHOOSE q \in request : TRUE
           detail == DealerHandlerRejects(req)
       IN  IF detail # {}
           THEN /\ result' = {HTTPException(400, CHOOSE d \in detail : TRUE)}
                /\ pc' = "done"
                /\ UNCHANGED <<op, request>>
           ELSE IF ~HasAttr(req, "inventoryType")
           THEN /\ result' = {HandlerFailure(M_NoInventoryType)}
                /\ pc' = "done"
                /\ UNCHANGED <<op, request>>
           ELSE /\ op' = "scrape_dealer_page"
                /\ pc' = "dp_landing"
                /\ request' = {[pageNumber |-> req.pageNumber,
                                dealerEntityId |-> req.dealerEntityId,
                                dealerUrl |-> req.dealerUrl,
                                inventoryType |-> req.inventoryType]}
                /\ UNCHANGED result
    /\ UNCHANGED handlerFrame

(* The requests of the API *)

\* a host that begins with the prefix of the handlers and is not CarGurus
H_prefixed == <<"h","t","t","p","s",":","/","/","w","w","w",".","c","a","r","g","u","r","u","s",".","c","o","m",".","i","o">>

ApiHosts == Hosts \cup {H_prefixed}

Path_dealer == <<"/","C","a","r","s","/","m","-","D","e","a","l","e","r","-","s","p","3","1","7","1","3","1">>

ApiDealerRequests ==
    {DealerInventoryRequest(e, n, u, p) :
        e \in {<<>>, DealerId},
        n \in {<<>>, <<"D","e","a","l","e","r">>},
        u \in {<<>>} \cup {h \o Path_dealer : h \in ApiHosts},
        p \in {1, 7}}

\* the instance after __init__, a request handed to its handler
InitApi ==
    /\ ExIdle
    /\ listing_id = None
    /\ matched = 0
    /\ FetchIdle
    /\ search_attempt = 0
    /\ search_log = <<>>
    /\ search_sleeps = <<>>
    /\ links = <<>>
    /\ link_sleeps = 0
    /\ cars = <<>>
    /\ result = {}
    /\ SessionIdle
    /\ DealerIdle
    /\ pc = "api_handler"
    /\ \/ /\ op = "/api/scrape"
          /\ request = {}
          /\ \E h \in ApiHosts, t \in UrlTails :
              /\ url = h \o t
              /\ urlHost = h
       \/ /\ op = "/api/dealer/inventory"
          /\ request \in {{r} : r \in ApiDealerRequests}
          /\ url = H_www
          /\ urlHost = H_www

NextApi ==
    \/ ScrapeCargurus
    \/ ScValidate
    \/ TryListingIdParam
    \/ TrySlashListing
    \/ TryHashListing
    \/ TryPathPatterns
    \/ TryQueryPatterns
    \/ TryDigitFallback
    \/ DetailGet
    \/ ScExtract
    \/ ScrapeCargurusReturn
    \/ ScrapeDealerInventory

SpecApi == InitApi /\ [][NextApi]_vars

-----------------------------------------------------------------------------
(* Claims about _extract_listing_id *)

\* the digits of the explicit query parameter [?&]listingId=<digits>, when the
\* parameter's value is exactly those digits (it ends at "&", "#" or the end)
ListingIdParam(u) ==
    LET hits == {i \in 0..Len(u) : \E p \in QueryAlternatives(K_listingId) :
                    /\ OccursAt(u, p, i)
                    /\ LET d == DigitRunAt(u, i + Len(p))
                           e == i + Len(p) + Len(d)
                       IN  /\ Len(d) > 0
                           /\ (e = Len(u) \/ u[e + 1] \in {"&", "#"})}
    IN  IF hits = {} THEN None
        ELSE DigitRunAt(u, SetMin(hits) + Len(K_listingId) + 1)

\* C1: for every URL that contains the query parameter listingId=<digits>,
\* _extract_listing_id returns exactly those digits, whatever else the URL
\* contains.
C1_ExplicitParamWins ==
    (pc = "id_done" /\ ListingIdParam(url) # None)
        => listing_id = ListingIdParam(url)

\* C2: the patterns are tried in the order 1..6 and the value returned is the
\* value of the first pattern that yields digits; the digit-run fallback (6)
\* is returned only when none of the five precise patterns yields digits, and
\* None is returned only when no pattern yields.
C2_FirstPatternWins ==
    pc = "id_done" =>
        LET ys == <<Pattern1(url), Pattern2(url), Pattern3(url),
                    Pattern4(url), Pattern5(url), Pattern6(url)>>
            hit == {k \in 1..6 : ys[k] # None}
        IN  /\ hit = {} => (matched = 0 /\ listing_id = None)
            /\ hit # {} => (matched = SetMin(hit) /\ listing_id = ys[SetMin(hit)])
            /\ matched = 6 => \A k \in 1..5 : ys[k] = None

\* a precise pattern (5, a query parameter) returned although the fallback
\* would have returned a different digit run
C2_Witness ==
    /\ pc = "id_done"
    /\ matched = 5
    /\ Pattern6(url) # None
    /\ Pattern6(url) # listing_id


\* none of the five precise patterns yields digits
NoPrecisePattern(u) == \A k \in 1..5 : PatternAt(k, u) = None

\* the candidates the claim has rejected: a year of four digits, the five
\* digits of an explicit zip= parameter, ten digits that do not begin with 0
RejectedAsListingId(c, u) ==
    \/ Len(c) = 4 /\ ToInt(c) \in 1900..2030
    \/ Len(c) = 5 /\ Contains(u, K_zip \o c)
    \/ Len(c) = 10 /\ c[1] # "0"

\* the runs of 6 or more digits of u that are not rejected, by their place
SurvivingRuns(u) ==
    {i \in LongDigitRuns(u) : ~RejectedAsListingId(DigitRunAt(u, i), u)}

\* C22: when no precise pattern matches, _extract_listing_id returns the
\* first run of 6 or more digits, in the order of the URL, that
\* _is_likely_not_listing_id does not reject, and None when every run is
\* rejected or there is none.
C22_FallbackFirstSurvivor ==
    (pc = "id_done" /\ NoPrecisePattern(url)) =>
        IF SurvivingRuns(url) = {}
        THEN listing_id = None /\ matched = 0
        ELSE /\ matched = 6
             /\ listing_id = DigitRunAt(url, SetMin(SurvivingRuns(url)))

\* the fallback has passed over a rejected run of ten digits and returned
\* the run of six digits behind it
C22_Witness ==
    /\ pc = "id_done"
    /\ matched = 6
    /\ listing_id = D_long
    /\ \E i \in LongDigitRuns(url) :
        /\ DigitRunAt(url, i) = D_phone
        /\ i < SetMin(SurvivingRuns(url))

-----------------------------------------------------------------------------
(* Claims about the extractors *)

TheCar == CHOOSE c \in car : TRUE

\* the value a two-tier lookup is specified to give: the sub-object's when it
\* carries the key, else the top-level one, else the default
TwoTier(sub, top, default) ==
    IF sub # {} THEN CHOOSE v \in sub : TRUE
    ELSE IF top # {} THEN CHOOSE v \in top : TRUE
    ELSE default

\* year, make and model as the payload under extraction gives them
GivenYear ==
    IF op = "_extract_car_data_from_json"
    THEN LET l == Listing(json_data)
         IN  TwoTier(AutoEntityInfo(l).year, l.year, 0)
    ELSE TwoTier(tile_data.carYear, {}, 0)

GivenMake ==
    IF op = "_extract_car_data_from_json"
    THEN LET l == Listing(json_data)
         IN  TwoTier(AutoEntityInfo(l).make, l.makeName, <<>>)
    ELSE TwoTier(tile_data.makeName, {}, <<>>)

GivenModel ==
    IF op = "_extract_car_data_from_json"
    THEN LET l == Listing(json_data)
         IN  TwoTier(AutoEntityInfo(l).model, l.modelName, <<>>)
    ELSE TwoTier(tile_data.modelName, {}, <<>>)

ValidName(n) == Len(n) > 0 /\ n # S_Unknown

\* C7: a detail payload or dealer tile whose year resolves to 0 while make and
\* model are valid yields no record (the extractor returns None).
C7_YearZeroRejected ==
    ( /\ pc = "done"
      /\ op \in {"_extract_car_data_from_json", "_extract_car_from_ajax_tile_data"}
      /\ GivenYear = 0
      /\ ValidName(GivenMake)
      /\ ValidName(GivenModel) )
        => car = {}

\* a detail payload with valid make and model and no usable year was rejected
C7_Witness ==
    /\ pc = "done"
    /\ op = "_extract_car_data_from_json"
    /\ GivenYear = 0
    /\ ValidName(GivenMake)
    /\ ValidName(GivenModel)
    /\ car = {}

\* C8: every record emitted by the detail or search extractors has make and
\* model both non-empty and different from "Unknown", and year # 0.
C8_EmittedRecordValid ==
    \A c \in car :
        /\ ValidName(c.make)
        /\ ValidName(c.model)
        /\ c.year # 0

\* C9: year, make and model of a detail record come from autoEntityInfo when
\* it carries them and from the top-level year/makeName/modelName when the
\* sub-object or its field is absent; a payload without autoEntityInfo and
\* with valid top-level year/makeName/modelName produces a record carrying
\* those three values.
C9_TwoTierLookup ==
    (pc = "done" /\ op = "_extract_car_data_from_json") =>
        LET l == Listing(json_data)
            a == AutoEntityInfo(l)
        IN  /\ \A c \in car :
                /\ (a.year # {} \/ l.year # {}) => c.year = GivenYear
                /\ (a.make # {} \/ l.makeName # {}) => c.make = GivenMake
                /\ (a.model # {} \/ l.modelName # {}) => c.model = GivenModel
            /\ ( /\ json_data.listing # {}
                 /\ l.autoEntityInfo = {}
                 /\ \E y \in l.year : MinYear <= y /\ y <= MaxYear
                 /\ \E m \in l.makeName : ValidName(m)
                 /\ \E m \in l.modelName : ValidName(m) )
                    => /\ car # {}
                       /\ l.year = {TheCar.year}
                       /\ l.makeName = {TheCar.make}
                       /\ l.modelName = {TheCar.model}

\* a payload without autoEntityInfo produced a record from the top-level keys
C9_Witness ==
    /\ pc = "done"
    /\ op = "_extract_car_data_from_json"
    /\ json_data.listing # {}
    /\ Listing(json_data).autoEntityInfo = {}
    /\ car # {}
    /\ Listing(json_data).makeName = {TheCar.make}

\* the trim the extractor under way resolves
ResolvedTrim ==
    IF op = "_extract_car_data_from_json"
    THEN ResolveTrim(Listing(json_data))
    ELSE Get(tile_data.trimName, <<>>)

\* "{year} {make} {model}" or "{year} {make} {model} {trim}"
TitleTemplate(c, trim) ==
    IF Strip(trim) = <<>>
    THEN IntToStr(c.year) \o SP \o c.make \o SP \o c.model
    ELSE IntToStr(c.year) \o SP \o c.make \o SP \o c.model \o SP \o trim

TitledOps == {"_extract_car_data_from_json", "_extract_car_from_ajax_tile_data"}

-----------------------------------------------------------------------------
(* Claims about the features, stats and images of a record *)

\* the pictures of the detail payload under extraction
GivenPictures == Get(Listing(json_data).pictures, NoList).items

\* the urls the pictures carry
GivenPictureUrls ==
    {u \in UNION {GivenPictures[i].url : i \in 1..Len(GivenPictures)} : Len(u) > 0}

\* the place of the first picture that carries u
FirstPictureWith(u) ==
    SetMin({i \in 1..Len(GivenPictures) : GivenPictures[i].url = {u}})

\* C11: _extract_images_from_json returns each distinct picture URL exactly
\* once, in the order of first occurrence in the pictures list: no URL appears
\* twice in a record's images.
C11_ImagesDistinctInOrder ==
    (pc = "done" /\ op = "_extract_car_data_from_json") =>
        \A c \in car :
            /\ \A i, j \in 1..Len(c.images) : i < j => c.images[i] # c.images[j]
            /\ GivenPictureUrls # {} =>
                /\ {c.images[i] : i \in 1..Len(c.images)} = GivenPictureUrls
                /\ \A i, j \in 1..Len(c.images) :
                       i < j => FirstPictureWith(c.images[i])
                                    < FirstPictureWith(c.images[j])

\* a record made from three pictures of which the third repeats the first
C11_Witness ==
    /\ pc = "done"
    /\ op = "_extract_car_data_from_json"
    /\ GivenPictures = <<Pic({U_a}), Pic({U_b}), Pic({U_a})>>
    /\ car # {}
    /\ TheCar.images = <<U_a, U_b>>

\* the payload under extraction names a picture url
PictureGiven ==
    IF op = "_extract_car_data_from_json" THEN GivenPictureUrls # {}
    ELSE \E d \in tile_data.originalPictureData : \E u \in d.url : Len(u) > 0

\* C12: every record produced by any extraction path has a non-empty images
\* list; when no image URL is found it holds exactly the placeholder URL.
C12_ImagesNeverEmpty ==
    \A c \in car :
        /\ Len(c.images) > 0
        /\ (pc = "done" /\ ~PictureGiven) => c.images = <<S_Placeholder>>

\* the payload under extraction names a feature
FeatureGiven ==
    IF op = "_extract_car_data_from_json"
    THEN LET l == Listing(json_data)
         IN  \/ Len(Get(l.options, NoList).items) > 0
             \/ Len(AdditionalFeatures(Get(l.description, <<>>))) > 0
             \/ \E v \in l.localizedTransmission \cup l.localizedDriveTrain
                         \cup l.localizedEngineDisplayName \cup l.mileageString :
                    Len(v) > 0
    ELSE Len(Get(tile_data.options, <<>>)) > 0

\* C13: every record has a non-empty features list; when no feature is found
\* it holds exactly "Features not available".
C13_FeaturesNeverEmpty ==
    \A c \in car :
        /\ Len(c.features) > 0
        /\ (pc = "done" /\ ~FeatureGiven) => c.features = <<S_NoFeatures>>

\* the search extractor of simple_main.py has returned
SimpleSearchDone ==
    op = "simple_main._extract_cars_from_search_page" /\ pc = "done"

\* the page answered by search_inventory names no listing: no car in an
\* embedded JSON and no listing link
NoListingInPage ==
    /\ op = "search_inventory"
    /\ pc = "done"
    /\ Len(search_log) > 0
    /\ LET r == search_log[Len(search_log)]
       IN  /\ r.kind = "html"
           /\ Len(r.body.hrefs) = 0
           /\ \A e \in r.body.embedded : Len(_extract_cars_from_json_data(e)) = 0

\* C17: when no search extraction strategy finds a listing in the fetched
\* page the search extractor returns an empty list of cars; no returned car
\* is a placeholder that was not derived from the payload.
C17_NoFabricatedCar ==
    /\ SimpleSearchDone =>
        /\ Len(CarElements(soup)) = 0 => cars = <<>>
        /\ Len(cars) <= Len(CarElements(soup))
    /\ NoListingInPage => \A res \in result : res.cars = <<>>

\* the price the payload under extraction gives, 0 without one
GivenPrice ==
    IF op = "_extract_car_data_from_json" THEN Get(Listing(json_data).price, 0)
    ELSE Get(tile_data.price, 0)

InRange(y) == MinYear <= y /\ y <= MaxYear

\* C18: in _extract_car_data_from_json a failure inside one field extractor
\* (a malformed stats sub-tree, a picture that is no dict, options that are no
\* list) degrades only that field: the record is still emitted, with the make,
\* model and year of the payload, when these are valid.
C18_FieldFailureIsolated ==
    ( /\ pc = "done"
      /\ op = "_extract_car_data_from_json"
      /\ json_data.listing # {}
      /\ ValidName(GivenMake)
      /\ ValidName(GivenModel)
      /\ InRange(GivenYear)
      /\ GivenPrice >= 0 )
        => /\ car # {}
           /\ TheCar.make = GivenMake
           /\ TheCar.model = GivenModel
           /\ TheCar.year = GivenYear

\* the payload under extraction gives a year or a price outside the limits
OutOfRangeGiven ==
    \/ GivenPrice < 0
    \/ IF op = "_extract_car_data_from_json" THEN ~InRange(GivenYear)
       ELSE \E y \in tile_data.carYear : ~InRange(y)

\* simple_main.py returns plain dicts, no ScrapedCar
SimpleMainOps ==
    {"simple_main._extract_cars_from_search_page",
     "simple_main._extract_cars_from_json"}

\* C20: every emitted ScrapedCar has 1900 <= year <= 2030 and price >= 0; a
\* payload whose year or price is out of range yields None, neither a record
\* out of range nor an exception that escapes.
C20_RecordInRange ==
    /\ \A c \in car : InRange(c.year) /\ c.price >= 0
    /\ op \notin SimpleMainOps =>
        \A i \in 1..Len(cars) : InRange(cars[i].year) /\ cars[i].price >= 0
    /\ ( /\ pc = "done"
         /\ op \in {"_extract_car_data_from_json", "_extract_car_from_json_tile",
                    "_extract_car_from_ajax_tile_data"}
         /\ OutOfRangeGiven ) => car = {}

\* a dealer tile of year 2031 and a valid price was rejected
C20_Witness ==
    /\ pc = "done"
    /\ op = "_extract_car_from_ajax_tile_data"
    /\ tile_data.carYear = {MaxYear + 1}
    /\ GivenPrice >= 0
    /\ car = {}

-----------------------------------------------------------------------------
(* Claims about the fetches of scrape_car and search_inventory *)

\* the waits of a loop are 1s, then 2s
IsBackoffPrefix(sleeps) == sleeps \in {<<>>, <<1>>, <<1, 2>>}

\* the number of waits a loop has made after n GETs: one after each GET while
\* the loop goes on, one between two consecutive GETs once it is over
WaitsMatch(n, sleeps, looping) ==
    IF looping THEN Len(sleeps) = n
    ELSE n > 0 => Len(sleeps) = n - 1

\* C3: _fetch_json_data and the loop of search_inventory each issue at most
\* 3 GETs per call, wait 1s after the first failed attempt and 2s after the
\* second, and do not wait after the third.
C3_BoundedRetryBackoff ==
    /\ Len(detail_log) <= 3
    /\ Len(search_log) <= 3
    /\ IsBackoffPrefix(detail_sleeps)
    /\ IsBackoffPrefix(search_sleeps)
    /\ WaitsMatch(Len(detail_log), detail_sleeps, pc = "sc_fetch")
    /\ WaitsMatch(Len(search_log), search_sleeps, pc = "si_get")

\* a search whose three GETs were needed, followed by a detail fetch that
\* used up its three GETs
C3_Witness ==
    /\ op = "search_inventory"
    /\ Len(search_log) = 3
    /\ search_sleeps = <<1, 2>>
    /\ Len(detail_log) = 3
    /\ detail_sleeps = <<1, 2>>
    /\ fetched = "none"

\* a non-200 status, a timeout or a transport error
TransportFailure(r) == r.kind \in {"status", "timeout", "error"}

\* the attempt produced no payload
AttemptFailed(r) == TransportFailure(r) \/ r.kind = "bad_json"

\* search_inventory has reported that it could not fetch the page
FetchFailureReported ==
    \E res \in result : ~res.success /\ res.errorMessage # {M_NoCars}

\* C4: a fetch whose attempts 1 and 2 fail and whose attempt 3 succeeds
\* returns the payload of attempt 3; a fetch failure is reported only when
\* all 3 attempts have failed, and as a value, never as an exception.
C4_FailureOnlyAfterExhaustion ==
    /\ fetched \in {"pending", "payload", "none"}
    /\ fetched = "none" => Len(detail_log) = 3
    /\ (/\ fetched # "pending"
        /\ Len(detail_log) = 3
        /\ TransportFailure(detail_log[1])
        /\ TransportFailure(detail_log[2])
        /\ detail_log[3].kind = "json"
        /\ detail_log[3].body.listing # {})
       => fetched = "payload" /\ json_data = detail_log[3].body
    /\ FetchFailureReported =>
          /\ Len(search_log) = 3
          /\ \A i \in 1..3 : AttemptFailed(search_log[i])
    /\ (/\ pc = "done"
        /\ Len(search_log) = 3
        /\ TransportFailure(search_log[1])
        /\ TransportFailure(search_log[2])
        /\ search_log[3].kind = "json"
        /\ search_log[3].body.tiles = {<<[type |-> T_USED, data |-> Tile_good]>>})
       => \E res \in result : res.success /\ Len(res.cars) = 1

\* C5: in both fetches a status-200 response whose body does not parse is a
\* failed attempt that is retried within the 3 attempts: after such a
\* response to attempt 1 or 2 the loop goes on to the next attempt.
C5_MalformedBodyRetried ==
    /\ \A i \in 1..Len(detail_log) :
          (detail_log[i].kind = "bad_json" /\ i < 3)
              => (Len(detail_log) > i \/ pc = "sc_fetch")
    /\ \A i \in 1..Len(search_log) :
          (search_log[i].kind = "bad_json" /\ i < 3)
              => (Len(search_log) > i \/ pc = "si_get")

\* the url carries no listing id
IdLessUrl == url \in {urlHost \o Tail_noid, urlHost \o Path_noid}

\* the scrape_car call whose url is in url has returned
ScrapeCarReturned == pc = "done" /\ (op = "scrape_car" \/ link_sleeps > 0)

\* C6: scrape_car issues no GET for a url of a wrong domain or without a
\* listing id, and returns None for it; no GET is issued before both checks
\* have passed.
C6_NoRequestBeforeChecks ==
    /\ (urlHost \notin GoodHosts \/ IdLessUrl) =>
          /\ detail_log = <<>>
          /\ ScrapeCarReturned => car = {}
    /\ pc \in {"sc_validate", "id_pattern"} => detail_log = <<>>

\* scrape_car has returned None for a url of a foreign host that carries a
\* listing id, without a GET
C6_Witness ==
    /\ op = "scrape_car"
    /\ pc = "done"
    /\ url = H_evil \o Tail_id
    /\ car = {}
    /\ detail_log = <<>>

\* a LISTING_USED_STANDARD or LISTING_NEW_STANDARD tile with valid make,
\* model and year
StandardValidTile(t) ==
    /\ t.type \in {T_USED, T_NEW}
    /\ \E m \in t.data.makeName : ValidName(m)
    /\ \E m \in t.data.modelName : ValidName(m)
    /\ \E y \in t.data.carYear : MinYear <= y /\ y <= MaxYear

\* the tiles of the JSON body that search_inventory has answered from
AnsweredTiles ==
    IF pc = "done" /\ op = "search_inventory" /\ Len(search_log) > 0
       /\ search_log[Len(search_log)].kind = "json"
    THEN Get(search_log[Len(search_log)].body.tiles, <<>>)
    ELSE <<>>

ConditionOf(tt) == IF tt = T_NEW THEN S_New ELSE S_Used

\* the answer is a success with one car per tile
OneCarPerTile ==
    \A res \in result :
        res.success /\ Len(res.cars) = Len(AnsweredTiles)

\* C14: search_inventory answered from a JSON body of N standard tiles
\* (LISTING_USED_STANDARD, LISTING_NEW_STANDARD) with valid make, model and
\* year returns success=true with exactly N cars, and the stats of each car
\* hold {Condition: Used}, or {Condition: New} for a LISTING_NEW_STANDARD tile.
C14_SearchTilesCondition ==
    ( /\ Len(AnsweredTiles) > 0
      /\ \A i \in 1..Len(AnsweredTiles) : StandardValidTile(AnsweredTiles[i]) )
        => /\ OneCarPerTile
           /\ \A res \in result : \A i \in 1..Len(res.cars) :
                  InList(Row(S_Condition, ConditionOf(AnsweredTiles[i].type)),
                         res.cars[i].stats)

-----------------------------------------------------------------------------
(* Claims about scrape_dealer_page *)

\* scrape_dealer_page has returned after its AJAX GET was answered
DealerAnswered ==
    /\ op = "scrape_dealer_page"
    /\ pc = "done"
    /\ Len(dealer_log) = 2

\* the total at the root of the JSON body answered, 0 without one
AnsweredTotal ==
    IF DealerAnswered /\ dealer_log[2].response.kind = "json"
    THEN Get(dealer_log[2].response.body.totalListings, 0)
    ELSE 0

RequestedPage == Get(request, [pageNumber |-> 1]).pageNumber

\* C15: a dealer scrape whose AJAX response carries totalListings = T > 0 and
\* yields at least one car reports totalResults = T, totalPages = ceil(T / 23)
\* and hasNextPage = (pageNumber < totalPages); T = 163 gives 8 pages, with a
\* next page for the pages 1 to 7 and none for page 8.
C15_DealerPagination ==
    (AnsweredTotal > 0 /\ Len(cars) > 0) =>
        \A res \in result :
            /\ res.success
            /\ res.totalResults = AnsweredTotal
            /\ res.totalPages * 23 >= AnsweredTotal
            /\ (res.totalPages - 1) * 23 < AnsweredTotal
            /\ res.hasNextPage = (RequestedPage < res.totalPages)
            /\ AnsweredTotal = 163 =>
                /\ res.totalPages = 8
                /\ res.hasNextPage = (RequestedPage <= 7)

\* page 8 of 163 cars: 8 pages, no next page
C15_Witness ==
    /\ AnsweredTotal = 163
    /\ Len(cars) > 0
    /\ RequestedPage = 8
    /\ \E res \in result :
        res.success /\ res.totalPages = 8 /\ ~res.hasNextPage

\* the tokens each dealer page carries
ScrapedTokens(text) ==
    CASE text = L_both -> [searchId |-> <<"s","1">>, pageReceipt |-> {<<"r","1">>}]
      [] text = L_searchId -> [searchId |-> <<"s","2">>, pageReceipt |-> {}]
      [] text = L_pageReceipt -> [searchId |-> FallbackSearchId, pageReceipt |-> {<<"r","3">>}]
      [] text = L_none -> [searchId |-> FallbackSearchId, pageReceipt |-> {}]
      [] text = L_second -> [searchId |-> <<"s","4">>, pageReceipt |-> {}]

AjaxGets == {g \in sent : g.target = "ajax"}

\* the landing GET was answered with status 200
LandingOk ==
    /\ Len(dealer_log) >= 1
    /\ dealer_log[1].target = "landing"
    /\ dealer_log[1].response.kind = "html"

\* C16: within scrape_dealer_page the AJAX GET is sent only after the landing
\* GET has returned status 200, and it carries the searchId and pageReceipt
\* scraped from that page (the hardcoded searchId when the page has none); a
\* landing GET that raises or returns another status is followed by no AJAX
\* GET and the call returns success=false.
C16_AjaxAfterLanding ==
    op = "scrape_dealer_page" =>
        /\ \A g \in AjaxGets :
            /\ LandingOk
            /\ \E p \in g.params :
                LET tokens == ScrapedTokens(dealer_log[1].response.text)
                IN  /\ p.searchId = tokens.searchId
                    /\ p.pageReceipt = tokens.pageReceipt
                    /\ p.pageNumber = {RequestedPage}
        /\ (Len(dealer_log) >= 1 /\ ~LandingOk) =>
            /\ AjaxGets = {}
            /\ pc = "done"
            /\ result # {}
            /\ \A res \in result : ~res.success

\* an AJAX GET that carries the two tokens of the page
C16_Witness ==
    /\ op = "scrape_dealer_page"
    /\ LandingOk
    /\ dealer_log[1].response.text = L_both
    /\ \E g \in AjaxGets : \E p \in g.params :
        p.searchId = <<"s","1">> /\ p.pageReceipt = {<<"r","1">>}

\* the headers each kind of GET is meant to carry: those of __init__ for the
\* detail fetch of scrape_car and for the dealer page, with the update of
\* search_inventory for the search, with that of scrape_dealer_page, the
\* referer being the dealer url of the call, for the AJAX GET
ProfileOf(target) ==
    CASE target = "detail" -> InitHeaders
      [] target = "landing" -> InitHeaders
      [] target = "search" -> SearchHeaders(InitHeaders)
      [] target = "ajax" ->
            DealerHeaders(InitHeaders,
                          Get(request, [dealerUrl |-> S_Home]).dealerUrl)

\* the GETs a call makes on its own account; the detail GETs that
\* search_inventory makes for the links of a page are left out
OwnGets ==
    {g \in sent : g.target = "detail" => op = "scrape_car"}

\* C19: whatever calls of scrape_car, search_inventory and scrape_dealer_page
\* were made before on the same instance, every GET carries exactly the
\* header profile of its own call type; a detail fetch or a dealer page fetch
\* never carries a header written by an earlier search or dealer call
\* (x-requested-with, a referer that is an earlier dealer url).
C19_OwnHeaderProfile ==
    \A g \in OwnGets :
        /\ g.headers = ProfileOf(g.target)
        /\ g.target \in {"detail", "landing"} =>
            /\ g.headers["x-requested-with"] = {}
            /\ g.headers["referer"] = {S_Home}

-----------------------------------------------------------------------------
(* Claims about the handlers *)

\* the request the dealer handler was handed
HandledDealerRequest == CHOOSE q \in request : TRUE

\* the dealer handler has returned without scrape_dealer_page taking over
DealerHandlerEnded == op = "/api/dealer/inventory" /\ pc = "done"

\* C21: a dealer inventory request that passes the checks of the handler is
\* handed to scrape_dealer_page with its entity id, url, page number and
\* inventory type, and the handler returns the result of that call; so the
\* handler ends on its own only with a request it rejects.
C21_DealerHandlerCalls ==
    DealerHandlerEnded => DealerHandlerRejects(HandledDealerRequest) # {}

\* the handler of /api/scrape has answered
ScrapeHandlerEnded == op = "/api/scrape" /\ pc = "done"

\* the handler has raised its 400 instead of calling scrape_car
ScrapeHandlerRefused == result = {HTTPException(400, "Invalid CarGurus URL")}

\* C23: _is_valid_cargurus_url accepts a URL exactly when its host is
\* www.cargurus.com or cargurus.com, and the handler of /api/scrape accepts
\* for scraping exactly the URLs this classification accepts.
C23_HandlerAcceptsClassified ==
    ScrapeHandlerEnded =>
        /\ _is_valid_cargurus_url(url) <=> urlHost \in GoodHosts
        /\ ~ScrapeHandlerRefused <=> _is_valid_cargurus_url(url)

\* the first half of C23 alone, the classification by the host
HostClassifiedExactly ==
    ScrapeHandlerEnded => (_is_valid_cargurus_url(url) <=> urlHost \in GoodHosts)

-----------------------------------------------------------------------------
(* Claims about the stats rows and the features *)

\* the stats section of the detail payload under extraction
GivenStats == Get(Listing(json_data).listingDetailStatsSectionDto, NoList)

\* every category is a dict whose items and options are lists of dicts
WellTypedStats ==
    /\ GivenStats.list
    /\ \A i \in 1..Len(GivenStats.items) :
        LET c == GivenStats.items[i]
            items == Get(c.items, NoList)
            opts == Get(c.optionsList, NoList)
        IN  /\ c.dict
            /\ items.list
            /\ opts.list
            /\ \A j \in 1..Len(items.items) : items.items[j].dict
            /\ \A j \in 1..Len(opts.items) : opts.items[j].dict

RECURSIVE RowPerItem(_)
\* one row for each item, in the order of the items
RowPerItem(items) ==
    IF Len(items) = 0 THEN <<>>
    ELSE <<Row(Get(Head(items).label, <<>>), Get(Head(items).displayValue, <<>>))>>
         \o RowPerItem(Tail(items))

\* the rows C24 gives one category: the header with the number of items and
\* a row per item, then the header of the named options and a row per name
RowsOfCategory(c) ==
    LET name == Get(c.categoryName, <<>>)
        items == Get(c.items, NoList).items
        names == OptionNames(Get(c.optionsList, NoList).items)
    IN  (IF Len(items) > 0
         THEN <<Row(Icon_category \o SP \o name, IntToStr(Len(items)) \o S_items)>>
              \o RowPerItem(items)
         ELSE <<>>)
        \o (IF Len(names) > 0
            THEN <<Row(Icon_options \o SP \o name \o S_Options,
                       IntToStr(Len(names)) \o S_options)>>
                 \o OptionRows(names)
            ELSE <<>>)

RECURSIVE RowsOfCategories(_)
RowsOfCategories(cs) ==
    IF Len(cs) = 0 THEN <<>>
    ELSE RowsOfCategory(Head(cs)) \o RowsOfCategories(Tail(cs))

DetailRecordEmitted ==
    /\ pc = "done"
    /\ op = "_extract_car_data_from_json"
    /\ car # {}

\* C24: _extract_stats_from_json emits the rows category by category in the
\* order of the source: for each category with items one header row with the
\* number of items, then exactly one row per item in the order of the items,
\* then for a category with named options one header row with their number
\* and one checkmark row per name; no row of a later category precedes a row
\* of an earlier one.
C24_StatsRowsPerCategory ==
    (DetailRecordEmitted /\ WellTypedStats) =>
        TheCar.stats = RowsOfCategories(GivenStats.items)

\* the same for the sections in which every category has a name and every
\* item a label and a displayValue
StatsRowsOfCompleteCategories ==
    ( /\ DetailRecordEmitted
      /\ WellTypedStats
      /\ \A i \in 1..Len(GivenStats.items) :
          LET c == GivenStats.items[i]
              items == Get(c.items, NoList).items
          IN  /\ Len(Get(c.categoryName, <<>>)) > 0
              /\ \A j \in 1..Len(items) :
                  /\ Len(Get(items[j].label, <<>>)) > 0
                  /\ Len(Get(items[j].displayValue, <<>>)) > 0 )
        => TheCar.stats = RowsOfCategories(GivenStats.items)

\* C27: the features built by _extract_features_from_json hold no two equal
\* strings: a feature of the options list that is also among the tokens
\* after the marker of the description, or twice in either, occurs once.
C27_FeaturesDistinct ==
    DetailRecordEmitted =>
        \A i, j \in 1..Len(TheCar.features) :
            i # j => TheCar.features[i] # TheCar.features[j]

-----------------------------------------------------------------------------
(* Claims about the classification of the tiles *)

\* the tile is a listing candidate: its type begins with LISTING_, or it is
\* MERCH and its data holds one of makeName, modelName, carYear
ListingCandidate(tt, td) ==
    \/ StartsWith(tt, K_LISTING_)
    \/ /\ tt = T_MERCH
       /\ (td.makeName # {} \/ td.modelName # {} \/ td.carYear # {})

\* what the tile extractor of the path under way makes of the data
TileRecord ==
    IF op = "_extract_cars_from_json_response"
    THEN _extract_car_from_json_tile(tile_data)
    ELSE IF op = "_extract_cars_from_ajax_json"
    THEN _extract_car_from_ajax_tile_data(tile_data, <<>>, tile_type)
    ELSE simple_extract_car_from_json_tile(tile_data)

TileListDone == pc = "done" /\ op \in TileListOps

\* C25: in every JSON tile extraction path a tile is treated as a listing
\* candidate, its data handed to the tile extractor, exactly when its type
\* begins with LISTING_ or it is a MERCH tile whose data holds makeName,
\* modelName or carYear; every other tile, and a tile with empty data, gives
\* no record.
C25_TileClassification ==
    TileListDone =>
        IF ListingCandidate(tile_type, tile_data) /\ HasData(tile_data)
        THEN cars = AsList(TileRecord)
        ELSE cars = <<>>

\* the same for the generic search path of cargurus_scraper.py alone
GenericTileClassification ==
    (TileListDone /\ op = "_extract_cars_from_json_response") =>
        IF ListingCandidate(tile_type, tile_data) /\ HasData(tile_data)
        THEN cars = AsList(TileRecord)
        ELSE cars = <<>>

-----------------------------------------------------------------------------
(* Claims about the number of requests of a search *)

\* the steps scrape_car has still to take at most, by its position
ScStepsLeft ==
    CASE pc = "sc_validate" -> 12
      [] pc = "id_pattern" -> 11 + matched
      [] pc = "sc_fetch" -> 4 - attempt
      [] pc = "sc_fetched" -> 1
      [] OTHER -> 0

\* the steps a search_inventory call has still to take at most
SearchStepsLeft ==
    IF pc = "done" THEN 0
    ELSE IF pc = "si_get" THEN 200 * (max_retries - search_attempt)
    ELSE 13 * Len(links) + ScStepsLeft

\* the page the link loop of the search under way works on
FetchedPage == search_log[Len(search_log)].body

\* C26: every search_inventory call ends after a bounded number of requests
\* whatever the page holds: at most 3 search GETs, at most 10 listing links
\* scraped one by one, each by one scrape_car call of at most 3 detail GETs,
\* the links behind the tenth being ignored; every step of the call brings
\* its end nearer.
C26_SearchBounded ==
    /\ [](op = "search_inventory" =>
            /\ Len(search_log) <= 3
            /\ Len(detail_log) <= 3
            /\ link_sleeps <= 10
            /\ Len(links) + link_sleeps <= 10
            /\ SearchStepsLeft >= 0)
    /\ [][(op = "search_inventory" /\ pc # "done")
              => SearchStepsLeft' < SearchStepsLeft]_vars

\* the search has scraped the ten first links of a page of eleven and has
\* left the eleventh, the only one with a listing id, alone
C26_Witness ==
    /\ op = "search_inventory"
    /\ pc = "done"
    /\ Len(search_log) > 0
    /\ FetchedPage.hrefs = LongPage
    /\ link_sleeps = 10
    /\ cars = <<>>
    /\ \A g \in sent : g.target # "detail"

-----------------------------------------------------------------------------
(* Claims about the results of search_inventory and scrape_dealer_page *)

\* a call that returns an InventorySearchResult has returned
ResultReturned ==
    /\ pc = "done"
    /\ op \in {"search_inventory", "scrape_dealer_page"}

TheResult == CHOOSE r \in result : TRUE

\* C28: every InventorySearchResult returned by search_inventory or
\* scrape_dealer_page with success=true has a non-empty cars list and every
\* one returned with success=false an empty one, whatever the status, content
\* type and payload of the responses and whatever exception was raised.
C28_SuccessIffCars ==
    ResultReturned =>
        /\ result # {}
        /\ TheResult.success <=> Len(TheResult.cars) > 0
        /\ TheResult.cars = cars

\* a search that failed although a payload was fetched for one of its links:
\* the HTML fallback scraped the links and no car came of them
C28_Witness ==
    /\ ResultReturned
    /\ op = "search_inventory"
    /\ link_sleeps > 0
    /\ Len(detail_log) > 0
    /\ ~TheResult.success
    /\ TheResult.cars = <<>>

\* the page the search under way was asked for
RequestedSearchPage == (CHOOSE q \in request : TRUE).pageNumber

\* the response search_inventory has made its result of
LastSearchResponse == search_log[Len(search_log)]

-----------------------------------------------------------------------------
(* Claims about the HTML fallback extractors *)

\* scrape_dealer_page has returned after an AJAX answer that is no JSON
AnsweredHtml == DealerAnswered /\ dealer_log[2].response.kind = "html"

AnsweredHtmlBody == dealer_log[2].response.body

\* the title of the container parses into make, model and year
TitleParses(container) ==
    /\ container.title # {}
    /\ _parse_car_title(Get(container.title, <<>>)) # {}

\* C30: _extract_car_from_dealer_listing_container returns None for every
\* container and _extract_cars_from_html_patterns an empty list for every
\* text, because ScrapedCar is built without originalUrl and the error is
\* swallowed; the cars of a non-JSON AJAX body are therefore those of the
\* containers whose title parses, or without any those of the embedded JSON.
C30_HtmlFallbacksYieldNothing ==
    AnsweredHtml =>
        LET body == AnsweredHtmlBody
            byTitle == CarsOfContainers(SelectSeq(body.containers, TitleParses))
            byJson == _extract_cars_from_embedded_json(body.embedded)
        IN  /\ \A i \in 1..Len(body.containers) :
                _extract_car_from_dealer_listing_container(body.containers[i]) = {}
            /\ _extract_cars_from_html_patterns(body) = <<>>
            /\ cars = IF Len(byTitle) > 0 THEN byTitle ELSE byJson

\* a body whose only container has its make, model and year elements found
\* and whose text matches the pattern twice, without embedded JSON: no car
C30_Witness ==
    /\ AnsweredHtml
    /\ AnsweredHtmlBody.containers = <<Container_elems>>
    /\ Len(AnsweredHtmlBody.matches) = 2
    /\ AnsweredHtmlBody.embedded = {}
    /\ cars = <<>>
    /\ \E res \in result : ~res.success /\ res.message = {M_NoAjaxCars}

=============================================================================
